---- MODULE Spec2Model ----
(***************************************************************************)
(* A model of ai-lib: the model registry and ModelManager (models.js), the *)
(* TextComplexityAnalyzer and TaskClassifier (taskClassifier.js), the      *)
(* ContextManager (contextManager.js), the LLMClient (llmClient.js) and    *)
(* the AIOrchestrator (index.js).                                          *)
(*                                                                         *)
(* JavaScript values are records tagged with their type (field t); a       *)
(* JavaScript string is a TLA+ string, a sequence of characters.           *)
(***************************************************************************)
EXTENDS Integers, Sequences, FiniteSets, TLC

VARIABLES
  op, arg, res,   \* the last operation applied directly, its arguments, its result
  registry,       \* MODEL_REGISTRY: model identifier -> descriptor
  managers,       \* the ModelManager instances: [strategy, models]
  taskTypes,      \* TASK_TYPES, in the order Object.entries lists it
  clients,        \* the LLMClient instances: [endpoints, apiKeys]
  orchs,          \* the AIOrchestrator instances and the components they hold
  tcMM,           \* the ModelManager linked into the default TaskClassifier
  cmMM,           \* the ModelManager linked into the default ContextManager
  call,           \* the asynchronous call in progress and where it stands
  http            \* the HTTP requests the call in progress has issued

vars ==
  <<op, arg, res, registry, managers, taskTypes, clients, orchs, tcMM, cmMM,
    call, http>>
opVars == <<op, arg, res>>

----------------------------------------------------------------------------
(* Bounds of the model *)

\* longest message list handed to the ContextManager operations
MaxMsgs == 3

\* most addCustomModel calls in one run
MaxCustomModels == 2

\* most addCustomTask calls in one run
MaxCustomTasks == 2

\* orchestrators created in one run, the default one not counted
MaxOrchs == 1

\* messages of a history handed to selectContextMessages
MaxHistory == 6

\* the largest maxContextMessages handed to selectContextMessages
MaxSelect == 5

\* turns of a chat history handed to processChatHistory
MaxTurns == 3

----------------------------------------------------------------------------
(* JavaScript strings are TLA+ strings: Len is .length, \o is + *)

Min(a, b) == IF a <= b THEN a ELSE b
Max(a, b) == IF a >= b THEN a ELSE b

\* c.repeat(n)
RECURSIVE Repeat(_, _)
Repeat(c, n) ==
  IF n <= 0 THEN ""
  ELSE IF n = 1 THEN c
  ELSE LET half == Repeat(c, n \div 2)
       IN  IF n % 2 = 0 THEN half \o half ELSE half \o half \o c

\* s.substring(0, k)
Substring0(s, k) == SubSeq(s, 1, Max(0, Min(k, Len(s))))

\* s.includes(k)
Includes(s, k) ==
  \E i \in 1..(Len(s) - Len(k) + 1) : SubSeq(s, i, i + Len(k) - 1) = k

\* s.endsWith(k)
EndsWith(s, k) ==
  /\ Len(k) <= Len(s)
  /\ SubSeq(s, Len(s) - Len(k) + 1, Len(s)) = k

\* the lower-case form of the ASCII capitals
LowerOf ==
  [ c \in { "A", "B", "C", "D", "E", "F", "G", "H", "I", "J", "K", "L", "M",
            "N", "O", "P", "Q", "R", "S", "T", "U", "V", "W", "X", "Y", "Z" } |->
    CASE c = "A" -> "a" [] c = "B" -> "b" [] c = "C" -> "c" [] c = "D" -> "d"
      [] c = "E" -> "e" [] c = "F" -> "f" [] c = "G" -> "g" [] c = "H" -> "h"
      [] c = "I" -> "i" [] c = "J" -> "j" [] c = "K" -> "k" [] c = "L" -> "l"
      [] c = "M" -> "m" [] c = "N" -> "n" [] c = "O" -> "o" [] c = "P" -> "p"
      [] c = "Q" -> "q" [] c = "R" -> "r" [] c = "S" -> "s" [] c = "T" -> "t"
      [] c = "U" -> "u" [] c = "V" -> "v" [] c = "W" -> "w" [] c = "X" -> "x"
      [] c = "Y" -> "y" [] c = "Z" -> "z" ]

LowerChar(c) == IF c \in DOMAIN LowerOf THEN LowerOf[c] ELSE c

\* s.toLowerCase(), on the ASCII letters
RECURSIVE ToLowerCase(_)
ToLowerCase(s) ==
  IF Len(s) = 0 THEN ""
  ELSE IF Len(s) = 1 THEN LowerChar(s)
  ELSE LET m == Len(s) \div 2
       IN  ToLowerCase(SubSeq(s, 1, m)) \o ToLowerCase(SubSeq(s, m + 1, Len(s)))

IsSpace(c) == c \in {" ", "\n", "\t", "\r"}

\* s.trim()
Trim(s) ==
  LET keep == { i \in 1..Len(s) : ~IsSpace(SubSeq(s, i, i)) }
  IN  IF keep = {} THEN ""
      ELSE SubSeq(s, CHOOSE i \in keep : \A j \in keep : i <= j,
                     CHOOSE i \in keep : \A j \in keep : i >= j)

Ellipsis == "..."

(* JavaScript values *)
JStr(s) == [t |-> "string", s |-> s]
JUndefined == [t |-> "undefined"]
JNull == [t |-> "null"]
JNum(n) == [t |-> "number", n |-> n]

\* the outcome of an evaluation: a value, or a thrown exception
Ok(v) == [threw |-> FALSE, v |-> v]
Throw(e) == [threw |-> TRUE, e |-> e]

----------------------------------------------------------------------------
(* Reading a property of a plain JavaScript object *)

\* names every object inherits from Object.prototype: obj[name] is a function
\* for each of them, whatever own properties obj has
ObjectPrototypeKeys ==
  { "constructor", "toString", "toLocaleString", "valueOf", "hasOwnProperty",
    "isPrototypeOf", "propertyIsEnumerable" }

\* the inherited member obj[name]
Inherited(name) == [t |-> "function", name |-> name]

\* the truth value of v in v || w and if (v)
Truthy(v) ==
  /\ v.t \notin {"undefined", "null"}
  /\ v.t = "string" => v.s # ""
  /\ v.t = "number" => v.n # 0
  /\ v.t = "boolean" => v.b

\* v || w
OrElse(v, w) == IF Truthy(v) THEN v ELSE w

----------------------------------------------------------------------------
(* The Response object fetch returns *)

\* response.ok
ResponseOk(status) == status \in 200..299

\* the bodies that are JSON texts and the values they parse to
JsonBodies ==
  [ x \in { "{\"id\":\"c1\",\"choices\":[{\"message\":{\"content\":\"Hi\"}}]}",
            "{\"model\":\"served-model\",\"success\":false,\"task\":\"other\"}",
            "{\"choices\":[{\"message\":{\"content\":\" LLM_Analysis\\n\"}}]}",
            "{\"choices\":[{\"message\":{\"content\":\"Analysis\"}}]}",
            "{\"choices\":[{\"message\":{\"content\":null}}]}",
            "{\"choices\":[{\"text\":\"LLM_Summary\"}]}",
            "{\"choices\":[]}",
            "{\"error\":\"overloaded\"}",
            "null" } |->
    CASE x = "{\"id\":\"c1\",\"choices\":[{\"message\":{\"content\":\"Hi\"}}]}" ->
           [t |-> "object",
            fields |-> [id |-> JStr("c1"),
                        choices |-> [t |-> "array", items |->
                          <<[t |-> "object", fields |->
                              [message |-> [t |-> "object", fields |->
                                 [content |-> JStr("Hi")]]]]>>]]]
      [] x = "{\"model\":\"served-model\",\"success\":false,\"task\":\"other\"}" ->
           [t |-> "object",
            fields |-> [model |-> JStr("served-model"),
                        success |-> [t |-> "boolean", b |-> FALSE],
                        task |-> JStr("other")]]
      [] x = "{\"choices\":[{\"message\":{\"content\":\" LLM_Analysis\\n\"}}]}" ->
           [t |-> "object",
            fields |-> [choices |-> [t |-> "array", items |->
                          <<[t |-> "object", fields |->
                              [message |-> [t |-> "object", fields |->
                                 [content |-> JStr(" LLM_Analysis\n")]]]]>>]]]
      [] x = "{\"choices\":[{\"message\":{\"content\":\"Analysis\"}}]}" ->
           [t |-> "object",
            fields |-> [choices |-> [t |-> "array", items |->
                          <<[t |-> "object", fields |->
                              [message |-> [t |-> "object", fields |->
                                 [content |-> JStr("Analysis")]]]]>>]]]
      [] x = "{\"choices\":[{\"message\":{\"content\":null}}]}" ->
           [t |-> "object",
            fields |-> [choices |-> [t |-> "array", items |->
                          <<[t |-> "object", fields |->
                              [message |-> [t |-> "object", fields |->
                                 [content |-> JNull]]]]>>]]]
      [] x = "{\"choices\":[{\"text\":\"LLM_Summary\"}]}" ->
           [t |-> "object",
            fields |-> [choices |-> [t |-> "array", items |->
                          <<[t |-> "object", fields |->
                              [text |-> JStr("LLM_Summary")]]>>]]]
      [] x = "{\"choices\":[]}" ->
           [t |-> "object", fields |-> [choices |-> [t |-> "array", items |-> <<>>]]]
      [] x = "{\"error\":\"overloaded\"}" ->
           [t |-> "object", fields |-> [error |-> JStr("overloaded")]]
      [] x = "null" -> JNull ]

\* await response.text(): the body, unless reading it fails
ResponseText(response) ==
  IF response.readable THEN Ok(response.body) ELSE Throw("body stream failed")

\* await response.json(): the body parsed, unless reading or parsing fails
ResponseJson(response) ==
  IF ~response.readable THEN Throw("body stream failed")
  ELSE IF response.body \in DOMAIN JsonBodies THEN Ok(JsonBodies[response.body])
  ELSE Throw("Unexpected token in JSON")

----------------------------------------------------------------------------
(* models.js *)

TEXT_LENGTH_THRESHOLDS ==
  [SHORT |-> 100, MEDIUM |-> 500, LONG |-> 1000, VERY_LONG |-> 2000]

\* costPer1kTokens is in units of 0.00001 USD
MODEL_REGISTRY ==
  [ x \in {"llama3-8b-8192", "llama3-70b-8192", "mixtral-8x7b-32768", "gpt-4",
           "claude-3-sonnet"} |->
    CASE x = "llama3-8b-8192" ->
           [provider |-> "groq", maxTokens |-> 8192, costPer1kTokens |-> 5,
            contextConfig |-> [maxContextMessages |-> 3, maxTokens |-> 4000,
                               contextStrategy |-> "recent"]]
      [] x = "llama3-70b-8192" ->
           [provider |-> "groq", maxTokens |-> 8192, costPer1kTokens |-> 59,
            contextConfig |-> [maxContextMessages |-> 6, maxTokens |-> 8000,
                               contextStrategy |-> "smart"]]
      [] x = "mixtral-8x7b-32768" ->
           [provider |-> "groq", maxTokens |-> 32768, costPer1kTokens |-> 24,
            contextConfig |-> [maxContextMessages |-> 8, maxTokens |-> 16000,
                               contextStrategy |-> "comprehensive"]]
      [] x = "gpt-4" ->
           [provider |-> "openai", maxTokens |-> 8192, costPer1kTokens |-> 3000,
            contextConfig |-> [maxContextMessages |-> 10, maxTokens |-> 6000,
                               contextStrategy |-> "comprehensive"]]
      [] x = "claude-3-sonnet" ->
           [provider |-> "anthropic", maxTokens |-> 200000, costPer1kTokens |-> 3000,
            contextConfig |-> [maxContextMessages |-> 12, maxTokens |-> 100000,
                               contextStrategy |-> "comprehensive"]] ]

MODEL_SELECTION_STRATEGIES ==
  [ COST_OPTIMIZED |->
      [SHORT |-> "llama3-8b-8192", MEDIUM |-> "llama3-8b-8192",
       LONG |-> "llama3-70b-8192", VERY_LONG |-> "llama3-70b-8192"],
    QUALITY_OPTIMIZED |->
      [SHORT |-> "llama3-70b-8192", MEDIUM |-> "llama3-70b-8192",
       LONG |-> "mixtral-8x7b-32768", VERY_LONG |-> "claude-3-sonnet"],
    SPEED_OPTIMIZED |->
      [SHORT |-> "llama3-8b-8192", MEDIUM |-> "llama3-8b-8192",
       LONG |-> "llama3-8b-8192", VERY_LONG |-> "llama3-70b-8192"],
    BALANCED |->
      [SHORT |-> "llama3-8b-8192", MEDIUM |-> "llama3-70b-8192",
       LONG |-> "mixtral-8x7b-32768", VERY_LONG |-> "llama3-70b-8192"] ]

\* the value of the expression MODEL_SELECTION_STRATEGIES[strategy]
StrategyTable(strategy) ==
  IF strategy \in DOMAIN MODEL_SELECTION_STRATEGIES
  THEN [t |-> "object", table |-> strategy]
  ELSE IF strategy \in ObjectPrototypeKeys THEN Inherited(strategy)
  ELSE JUndefined

\* the value of the expression models[key], models being what this.models holds
ModelsEntry(models, key) ==
  IF models.t = "object" /\ key \in DOMAIN MODEL_SELECTION_STRATEGIES[models.table]
  THEN JStr(MODEL_SELECTION_STRATEGIES[models.table][key])
  ELSE IF key \in ObjectPrototypeKeys THEN Inherited(key)
  ELSE JUndefined

\* new ModelManager(strategy)
NewManager(strategy) ==
  [ strategy |-> strategy,
    models |-> OrElse(StrategyTable(strategy), StrategyTable("BALANCED")) ]

\* ModelManager.getModelForComplexity
getModelForComplexity(m, complexity) ==
  OrElse(ModelsEntry(m.models, complexity), ModelsEntry(m.models, "SHORT"))

\* ModelManager.setStrategy
setStrategy(m, strategy) ==
  IF Truthy(StrategyTable(strategy))
  THEN [strategy |-> strategy, models |-> StrategyTable(strategy)]
  ELSE m

\* ModelManager.getModelConfig: the descriptor, the member of
\* Object.prototype a name of one finds, or the default model's descriptor;
\* modelId is a JavaScript value, and one that is no string names no entry
getModelConfig(reg, modelId) ==
  IF modelId.t = "string" /\ modelId.s \in DOMAIN reg THEN reg[modelId.s]
  ELSE IF modelId.t = "string" /\ modelId.s \in ObjectPrototypeKeys
  THEN Inherited(modelId.s)
  ELSE reg["llama3-8b-8192"]

\* the value of a numeric expression that is not a number
NaN == [t |-> "NaN"]

\* ModelManager.estimateCost, in units of 10^-8 USD (costPer1kTokens is in
\* units of 10^-5 USD); outputTokens is 0 when it is left out
estimateCost(reg, modelId, inputTokens, outputTokens) ==
  LET config == getModelConfig(reg, modelId)
      output == IF outputTokens.t = "undefined" THEN 0 ELSE outputTokens.n
  IN  IF "costPer1kTokens" \notin DOMAIN config THEN NaN
      ELSE JNum(inputTokens.n * config.costPer1kTokens
                  + output * (config.costPer1kTokens * 2))

\* AIOrchestrator.addCustomModel: MODEL_REGISTRY[modelId] = config
addCustomModel(reg, modelId, config) ==
  [ x \in DOMAIN reg \cup {modelId} |-> IF x = modelId THEN config ELSE reg[x] ]

----------------------------------------------------------------------------
(* taskClassifier.js *)

\* the entries of TASK_TYPES in the order they are written; a string key
\* keeps the place of its first assignment; temperature is in tenths
TASK_TYPES ==
  << [id |-> "LLM_Summary", maxTokens |-> 2000, temperature |-> 3,
      keywords |-> <<"summary", "summarise", "summarize", "condense", "brief",
                     "overview">>],
     [id |-> "LLM_Creation", maxTokens |-> 1500, temperature |-> 7,
      keywords |-> <<"create", "generate", "write", "compose", "craft",
                     "develop">>],
     [id |-> "LLM_Ideation", maxTokens |-> 1200, temperature |-> 5,
      keywords |-> <<"ideate", "brainstorm", "suggest", "ideas", "options",
                     "alternatives">>],
     [id |-> "LLM_Analysis", maxTokens |-> 2500, temperature |-> 2,
      keywords |-> <<"analyze", "analyse", "analysis", "explain", "compare",
                     "evaluate", "assess", "examine", "study", "review">>],
     [id |-> "LLM_Converter", maxTokens |-> 1500, temperature |-> 4,
      keywords |-> <<"convert", "transform", "translate", "reformat", "adapt",
                     "modify">>],
     [id |-> "LLM_Default", maxTokens |-> 1500, temperature |-> 3,
      keywords |-> <<>>] >>

analyticalKeywords ==
  << "analyze", "analyse", "compare", "evaluate", "summarize", "summarise",
     "explain", "discuss", "research", "study", "review", "assess" >>

\* the reason text; the character and word counts the code prints into it
\* are kept as the length alone
Reason(text, length, upgraded) ==
  [text |-> text, length |-> length, upgraded |-> upgraded]

\* the mutant of analyze whose thresholds are exclusive
analyzeExclusive(text) ==
  IF ~Truthy(text) \/ text.t # "string"
  THEN [complexity |-> "SHORT", reason |-> Reason("Empty or invalid text", 0, FALSE)]
  ELSE
    LET length == Len(text.s)
        base ==
          IF length < TEXT_LENGTH_THRESHOLDS.SHORT THEN "SHORT"
          ELSE IF length < TEXT_LENGTH_THRESHOLDS.MEDIUM THEN "MEDIUM"
          ELSE IF length < TEXT_LENGTH_THRESHOLDS.LONG THEN "LONG"
          ELSE "VERY_LONG"
        lowered == ToLowerCase(text.s)
        hasAnalyticalContent ==
          \E k \in 1..Len(analyticalKeywords) :
            Includes(lowered, analyticalKeywords[k])
    IN  IF hasAnalyticalContent /\ base = "SHORT"
        THEN [complexity |-> "MEDIUM", reason |-> Reason("Short text", length, TRUE)]
        ELSE [complexity |-> base, reason |-> Reason(base, length, FALSE)]

\* TextComplexityAnalyzer.analyze; stats (the word, sentence and paragraph
\* counts and the score) are returned by the code and read by nothing
analyze(text) ==
  IF ~Truthy(text) \/ text.t # "string"
  THEN [complexity |-> "SHORT", reason |-> Reason("Empty or invalid text", 0, FALSE)]
  ELSE
    LET length == Len(text.s)
        base ==
          IF length <= TEXT_LENGTH_THRESHOLDS.SHORT THEN "SHORT"
          ELSE IF length <= TEXT_LENGTH_THRESHOLDS.MEDIUM THEN "MEDIUM"
          ELSE IF length <= TEXT_LENGTH_THRESHOLDS.LONG THEN "LONG"
          ELSE "VERY_LONG"
        lowered == ToLowerCase(text.s)
        hasAnalyticalContent ==
          \E k \in 1..Len(analyticalKeywords) :
            Includes(lowered, analyticalKeywords[k])
    IN  IF hasAnalyticalContent /\ base = "SHORT"
        THEN [complexity |-> "MEDIUM", reason |-> Reason("Short text", length, TRUE)]
        ELSE [complexity |-> base, reason |-> Reason(base, length, FALSE)]

\* whether one of the keywords of task entry e occurs in query
KeywordMatches(e, query) ==
  \E k \in 1..Len(e.keywords) : Includes(query, e.keywords[k])

\* the mutant of the loop in which a later matching task replaces an earlier one
RECURSIVE scanTaskTypesLast(_, _, _)
scanTaskTypesLast(types, i, query) ==
  IF i > Len(types) THEN "LLM_Default"
  ELSE LET later == scanTaskTypesLast(types, i + 1, query)
       IN  IF later # "LLM_Default" THEN later
           ELSE IF types[i].id # "LLM_Default" /\ KeywordMatches(types[i], query)
           THEN types[i].id
           ELSE "LLM_Default"

\* the for loop of determineTaskType over Object.entries(TASK_TYPES), from entry i
RECURSIVE scanTaskTypes(_, _, _)
scanTaskTypes(types, i, query) ==
  IF i > Len(types) THEN "LLM_Default"
  ELSE IF types[i].id = "LLM_Default" THEN scanTaskTypes(types, i + 1, query)
  ELSE IF KeywordMatches(types[i], query) THEN types[i].id
  ELSE scanTaskTypes(types, i + 1, query)

\* TaskClassifier.determineTaskType; a value that is no string has no
\* toLowerCase method
determineTaskType(types, queryText) ==
  IF queryText.t # "string" THEN Throw("TypeError")
  ELSE Ok(scanTaskTypes(types, 1, Trim(ToLowerCase(queryText.s))))

\* AIOrchestrator.addCustomTask: TASK_TYPES[taskType] = config
addCustomTask(types, taskType, config) ==
  LET entry == [id |-> taskType, maxTokens |-> config.maxTokens,
                temperature |-> config.temperature, keywords |-> config.keywords]
  IN  IF \E i \in 1..Len(types) : types[i].id = taskType
      THEN [ i \in 1..Len(types) |->
               IF types[i].id = taskType THEN entry ELSE types[i] ]
      ELSE Append(types, entry)

\* TaskClassifier.getModelForTask
getModelForTask(task, complexity) == "llama3-8b-8192"

\* the object classifyQuery returns for a task and an analysis
Classification(task, analysis) ==
  [ task |-> task,
    model |-> JStr(getModelForTask(task, analysis.complexity)),
    complexity |-> analysis.complexity,
    reason |-> analysis.reason ]

\* v[name] for a parsed JSON value v: a TypeError on null and undefined
Field(v, name) ==
  IF v.t \in {"null", "undefined"} THEN Throw("TypeError")
  ELSE IF v.t = "object" /\ name \in DOMAIN v.fields THEN Ok(v.fields[name])
  ELSE Ok(JUndefined)

\* classifyQuery up to its fetch: it returns, throws, or sends the
\* classification request; m is the ModelManager linked into the classifier
classifyBeforeFetch(m, types, queryText) ==
  IF ~Truthy(queryText)
  THEN [ kind |-> "return",
         classification |->
           [ task |-> "LLM_Default",
             model |-> getModelForComplexity(m, "SHORT"),
             complexity |-> "SHORT",
             reason |-> Reason("Empty query", 0, FALSE) ] ]
  ELSE
    LET complexityAnalysis == analyze(queryText)
        task == determineTaskType(types, queryText)
    IN  IF task.threw THEN [kind |-> "throw", e |-> task.e]
        ELSE IF task.v = "LLM_Default"
        THEN [ kind |-> "fetch", analysis |-> complexityAnalysis,
               request |-> [ url |-> JStr("/api/llm"), authorization |-> JUndefined,
                             body |-> [ model |-> JStr("llama3-8b-8192"),
                                        max_tokens |-> 10, temperature |-> 0,
                                        query |-> queryText ] ] ]
        ELSE [ kind |-> "return",
               classification |-> Classification(task.v, complexityAnalysis) ]

\* the body of the try block after the fetch: the task the response names,
\* LLM_Default kept when the response names none, or an exception
TaskFromResponse(outcome) ==
  IF outcome.kind = "throw" THEN Throw(outcome.message)
  ELSE IF ~ResponseOk(outcome.status) THEN Ok("LLM_Default")
  ELSE
    LET result == ResponseJson(outcome) IN
    IF result.threw THEN result
    ELSE LET choices == Field(result.v, "choices") IN
      IF choices.threw THEN choices
      ELSE IF ~(choices.v.t = "array" /\ Len(choices.v.items) > 0) THEN Ok("LLM_Default")
      ELSE LET message == Field(choices.v.items[1], "message") IN
        IF message.threw THEN message
        ELSE LET content == Field(message.v, "content") IN
          IF content.threw THEN content
          ELSE IF content.v.t # "string" THEN Throw("TypeError")
          ELSE Ok(Trim(content.v.s))

\* the mutant of classifyQuery whose catch block keeps the exception as the task
classifyAfterFetchNoFallback(analysis, outcome) ==
  LET named == TaskFromResponse(outcome)
      task == IF named.threw THEN named.e ELSE named.v
  IN  Classification(task, analysis)

\* classifyQuery from the outcome of its fetch
classifyAfterFetch(analysis, outcome) ==
  LET named == TaskFromResponse(outcome)
      task == IF named.threw THEN "LLM_Default" ELSE named.v
  IN  Classification(task, analysis)

----------------------------------------------------------------------------
(* ContextManager (contextManager.js) *)

\* Math.ceil(text.length / 4)
estimateTokenCount(text) == (Len(text) + 3) \div 4

\* multiples of ten n at which the double product n * 0.7 falls just below
\* the integer 7n/10 (0.7 is not a double); exact for n < 5000
FloatProductBelow(n) ==
  /\ n % 10 = 0
  /\ \/ n = 90
     \/ n \in 170..180
     \/ n \in 330..360
     \/ n \in 650..730
     \/ n \in 1290..1460
     \/ n \in 2570..2920

\* Math.floor(maxTokens * 0.7)
FloorSeventyPercent(maxTokens) ==
  (7 * maxTokens) \div 10 - (IF FloatProductBelow(maxTokens) THEN 1 ELSE 0)

\* the mutant of the loop that appends the kept message instead of putting
\* it in front
RECURSIVE optimizeLoopPush(_, _, _, _, _)
optimizeLoopPush(contextMessages, i, totalTokens, optimizedMessages, maxContextTokens) ==
  IF i = 0 THEN Ok(optimizedMessages)
  ELSE
    LET message == contextMessages[i] IN
    IF message.content.t # "string"
    THEN Throw("TypeError")
    ELSE
      LET messageTokens == estimateTokenCount(message.content.s) IN
      IF totalTokens + messageTokens <= maxContextTokens
      THEN optimizeLoopPush(contextMessages, i - 1, totalTokens + messageTokens,
                            optimizedMessages \o <<message>>, maxContextTokens)
      ELSE
        LET remainingTokens == maxContextTokens - totalTokens
            maxChars == remainingTokens * 4
            truncatedMessage ==
              [message EXCEPT !.content =
                 JStr(Substring0(message.content.s, maxChars) \o Ellipsis)]
        IN  IF maxChars > 100
            THEN Ok(optimizedMessages \o <<truncatedMessage>>)
            ELSE Ok(optimizedMessages)

\* the mutant of the loop that truncates only when more than 100 tokens
\* (400 characters) remain
RECURSIVE optimizeLoopHundredTokens(_, _, _, _, _)
optimizeLoopHundredTokens(contextMessages, i, totalTokens, optimizedMessages, maxContextTokens) ==
  IF i = 0 THEN Ok(optimizedMessages)
  ELSE
    LET message == contextMessages[i] IN
    IF message.content.t # "string"
    THEN Throw("TypeError")
    ELSE
      LET messageTokens == estimateTokenCount(message.content.s) IN
      IF totalTokens + messageTokens <= maxContextTokens
      THEN optimizeLoopHundredTokens(contextMessages, i - 1,
                                     totalTokens + messageTokens,
                                     <<message>> \o optimizedMessages,
                                     maxContextTokens)
      ELSE
        LET remainingTokens == maxContextTokens - totalTokens
            maxChars == remainingTokens * 4
            truncatedMessage ==
              [message EXCEPT !.content =
                 JStr(Substring0(message.content.s, maxChars) \o Ellipsis)]
        IN  IF remainingTokens > 100
            THEN Ok(<<truncatedMessage>> \o optimizedMessages)
            ELSE Ok(optimizedMessages)

\* the for loop of optimizeContext, at index i (1-based), with the tokens
\* counted and the messages kept so far
RECURSIVE optimizeLoop(_, _, _, _, _)
optimizeLoop(contextMessages, i, totalTokens, optimizedMessages, maxContextTokens) ==
  IF i = 0 THEN Ok(optimizedMessages)
  ELSE
    LET message == contextMessages[i] IN
    IF message.content.t # "string"
    THEN Throw("TypeError")  \* text.length of undefined / null
    ELSE
      LET messageTokens == estimateTokenCount(message.content.s) IN
      IF totalTokens + messageTokens <= maxContextTokens
      THEN optimizeLoop(contextMessages, i - 1, totalTokens + messageTokens,
                        <<message>> \o optimizedMessages, maxContextTokens)
      ELSE
        LET remainingTokens == maxContextTokens - totalTokens
            maxChars == remainingTokens * 4
            truncatedMessage ==
              [message EXCEPT !.content =
                 JStr(Substring0(message.content.s, maxChars) \o Ellipsis)]
        IN  IF maxChars > 100
            THEN Ok(<<truncatedMessage>> \o optimizedMessages)
            ELSE Ok(optimizedMessages)

optimizeContext(contextMessages, maxTokens) ==
  optimizeLoop(contextMessages, Len(contextMessages), 0, <<>>,
               FloorSeventyPercent(maxTokens))

\* Array.prototype.slice(start): from index start (0-based), a negative
\* start counting from the end
Slice(messages, start) ==
  LET len == Len(messages)
      from == IF start < 0 THEN Max(len + start, 0) ELSE Min(start, len)
  IN  SubSeq(messages, from + 1, len)

selectRecentMessages(messages, maxContextMessages) ==
  Slice(messages, 0 - maxContextMessages)

selectSmartMessages(messages, maxContextMessages) ==
  IF Len(messages) <= maxContextMessages THEN messages
  ELSE <<messages[1]>> \o Slice(messages, 0 - maxContextMessages + 1)

selectComprehensiveMessages(messages, maxContextMessages) ==
  IF Len(messages) <= maxContextMessages THEN messages
  ELSE <<messages[1], messages[(Len(messages) \div 2) + 1]>>
       \o Slice(messages, 0 - maxContextMessages + 2)

selectMinimalMessages(messages, maxContextMessages) ==
  Slice(messages, 0 - Min(maxContextMessages, 2))

\* ContextManager.selectContextMessages
selectContextMessages(reg, messages, model, maxContextMessages) ==
  IF Len(messages) = 0 THEN <<>>
  ELSE
    LET strategy == getModelConfig(reg, model).contextConfig.contextStrategy IN
    CASE strategy = "recent" -> selectRecentMessages(messages, maxContextMessages)
      [] strategy = "smart" -> selectSmartMessages(messages, maxContextMessages)
      [] strategy = "comprehensive" ->
           selectComprehensiveMessages(messages, maxContextMessages)
      [] strategy = "minimal" -> selectMinimalMessages(messages, maxContextMessages)
      [] OTHER -> selectRecentMessages(messages, maxContextMessages)

\* the mutant of buildMessagesArray that puts the query before the context
buildMessagesArrayQueryFirst(systemPrompt, contextMessages, userQuery) ==
  <<[role |-> "system", content |-> systemPrompt]>>
    \o <<[role |-> "user", content |-> userQuery]>>
    \o contextMessages

\* ContextManager.buildMessagesArray
buildMessagesArray(systemPrompt, contextMessages, userQuery) ==
  <<[role |-> "system", content |-> systemPrompt]>>
    \o contextMessages
    \o <<[role |-> "user", content |-> userQuery]>>

\* the mutant of the loop that pushes an assistant message for every turn
RECURSIVE flattenTurnsAlways(_)
flattenTurnsAlways(turns) ==
  IF turns = <<>> THEN <<>>
  ELSE LET msg == Head(turns) IN
       <<[role |-> "user", content |-> msg.user],
         [role |-> "assistant", content |-> msg.response]>>
         \o flattenTurnsAlways(Tail(turns))

\* the for loop of processChatHistory over chatHistory.messages
RECURSIVE flattenTurns(_)
flattenTurns(turns) ==
  IF turns = <<>> THEN <<>>
  ELSE LET msg == Head(turns) IN
       <<[role |-> "user", content |-> msg.user]>>
         \o (IF Truthy(msg.response)
             THEN <<[role |-> "assistant", content |-> msg.response]>>
             ELSE <<>>)
         \o flattenTurns(Tail(turns))

\* ContextManager.processChatHistory; a history is null, or an object whose
\* messages are a list of turns or undefined
processChatHistory(chatHistory) ==
  IF Truthy(chatHistory) /\ chatHistory.messages.t = "array"
  THEN flattenTurns(chatHistory.messages.items)
  ELSE <<>>

\* the sum of the estimated token counts of a list of messages
RECURSIVE TotalTokens(_)
TotalTokens(messages) ==
  IF messages = <<>> THEN 0
  ELSE estimateTokenCount(Head(messages).content.s) + TotalTokens(Tail(messages))

----------------------------------------------------------------------------
(* llmClient.js *)

\* { ...a, ...b }: the properties of a, those of b written over them
Merge(a, b) ==
  [ k \in DOMAIN a \cup DOMAIN b |-> IF k \in DOMAIN b THEN b[k] ELSE a[k] ]

\* new LLMClient()
NewLLMClient ==
  [ endpoints |-> [ groq |-> JStr("https://api.groq.com/openai/v1/chat/completions"),
                    openai |-> JStr("/api/openai"),
                    anthropic |-> JStr("/api/anthropic") ],
    apiKeys |-> [ groq |-> JNull, openai |-> JNull, anthropic |-> JNull ] ]

\* the mutant of setApiKey that writes the key for every provider
setApiKeyEverywhere(client, provider, key) ==
  [client EXCEPT !.apiKeys =
     [ x \in DOMAIN client.apiKeys \cup {provider} |-> key ]]

\* LLMClient.setApiKey
setApiKey(client, provider, key) ==
  [client EXCEPT !.apiKeys =
     [ x \in DOMAIN client.apiKeys \cup {provider} |->
         IF x = provider THEN key ELSE client.apiKeys[x] ]]

\* LLMClient.getApiKey
getApiKey(client, provider) ==
  IF provider \in DOMAIN client.apiKeys THEN client.apiKeys[provider] ELSE JUndefined

\* LLMClient.setEndpoint
setEndpoint(client, provider, endpoint) ==
  [client EXCEPT !.endpoints =
     [ x \in DOMAIN client.endpoints \cup {provider} |->
         IF x = provider THEN endpoint ELSE client.endpoints[x] ]]

\* LLMClient.getEndpoint
getEndpoint(client, provider) ==
  IF provider \in DOMAIN client.endpoints THEN client.endpoints[provider]
  ELSE JUndefined

\* the mutant of getProviderFromModel that tests "claude" before "gpt"
getProviderFromModelClaudeFirst(model) ==
  IF model.t # "string" THEN Throw("model.includes is not a function")
  ELSE IF Includes(model.s, "llama") \/ Includes(model.s, "mixtral") THEN Ok("groq")
  ELSE IF Includes(model.s, "claude") THEN Ok("anthropic")
  ELSE IF Includes(model.s, "gpt") THEN Ok("openai")
  ELSE Ok("groq")

\* LLMClient.getProviderFromModel; a model that is no string has no
\* includes method
getProviderFromModel(model) ==
  IF model.t # "string" THEN Throw("model.includes is not a function")
  ELSE IF Includes(model.s, "llama") \/ Includes(model.s, "mixtral") THEN Ok("groq")
  ELSE IF Includes(model.s, "gpt") THEN Ok("openai")
  ELSE IF Includes(model.s, "claude") THEN Ok("anthropic")
  ELSE Ok("groq")

\* params.contextMessages?.length || 0
ContextSize(params) ==
  IF params.contextMessages.t = "array" THEN Len(params.contextMessages.items) ELSE 0

\* the request metadata both envelopes carry
EnvelopeMetadata(params) ==
  [ temperature |-> params.temperature,
    model |-> params.model,
    task |-> params.task,
    complexity |-> params.complexity,
    reason |-> params.reason,
    contextMessages |-> ContextSize(params) ]

\* the mutant of createSuccessResponse in which the payload is spread last
createSuccessResponsePayloadLast(result, params) ==
  Merge(Merge(EnvelopeMetadata(params), [success |-> TRUE]),
        IF result.t = "object" THEN result.fields ELSE [x \in {} |-> x])

\* LLMClient.createSuccessResponse; result is the parsed body, an object
\* (a record of its properties) or null
createSuccessResponse(result, params) ==
  Merge(IF result.t = "object" THEN result.fields ELSE [x \in {} |-> x],
        Merge(EnvelopeMetadata(params), [success |-> TRUE]))

\* LLMClient.createErrorResponse
createErrorResponse(error, details, params) ==
  Merge([error |-> error, details |-> details],
        Merge(EnvelopeMetadata(params), [success |-> FALSE]))

\* the mutant of the catch block that lets the exception escape
callLLMRethrow(message, params) == Throw(message)

\* the catch block of callLLM
callLLMCatch(message, params) ==
  Ok(createErrorResponse("LLM call error", message, params))

\* callLLM up to its fetch: the request to send, or what the catch block
\* returns when getProviderFromModel throws
callLLMBeforeFetch(client, params) ==
  LET provider == getProviderFromModel(params.model) IN
  IF provider.threw
  THEN [sent |-> FALSE, returned |-> callLLMCatch(provider.e, params)]
  ELSE
    LET endpoint == OrElse(getEndpoint(client, provider.v), getEndpoint(client, "groq"))
        apiKey == getApiKey(client, provider.v)
    IN  [ sent |-> TRUE,
          request |->
            [ url |-> endpoint,
              authorization |-> IF Truthy(apiKey) THEN JStr("Bearer " \o apiKey.s)
                                ELSE JUndefined,
              body |-> [ model |-> params.model, max_tokens |-> params.maxTokens,
                         temperature |-> params.temperature,
                         messages |-> params.messages ] ] ]

\* callLLM from the outcome of its fetch: a thrown exception, or a response
callLLMAfterFetch(params, outcome) ==
  IF outcome.kind = "throw" THEN callLLMCatch(outcome.message, params)
  ELSE IF ~ResponseOk(outcome.status)
  THEN LET errorText == ResponseText(outcome) IN
       IF errorText.threw THEN callLLMCatch(errorText.e, params)
       ELSE Ok(createErrorResponse("LLM call failed", errorText.v, params))
  ELSE LET result == ResponseJson(outcome) IN
       IF result.threw THEN callLLMCatch(result.e, params)
       ELSE Ok(createSuccessResponse(result.v, params))

----------------------------------------------------------------------------
(* PromptManager (prompts.js): lookups keyed by the task, the default task *)
(* standing in for a task that is not registered                          *)

\* the descriptor of task, or the default task's
TaskEntry(types, task) ==
  LET named == { i \in 1..Len(types) : types[i].id = task }
      default == { i \in 1..Len(types) : types[i].id = "LLM_Default" }
  IN  IF named # {} THEN types[CHOOSE i \in named : TRUE]
      ELSE types[CHOOSE i \in default : TRUE]

getTokenLimit(types, task, complexity) == TaskEntry(types, task).maxTokens

getTemperature(types, task, complexity, contextLength) ==
  TaskEntry(types, task).temperature

getSystemPrompt(types, task, maxTokens, complexity) ==
  JStr("You are a helpful assistant. Task: " \o TaskEntry(types, task).id)

----------------------------------------------------------------------------
(* AIOrchestrator (index.js) *)

\* options[key], "none" standing for undefined
Option(options, key) == IF key \in DOMAIN options THEN options[key] ELSE "none"

\* an object without properties
NoOptions == [ x \in {} |-> x ]

\* the constructor: the components the new orchestrator holds
NewAIOrchestrator(options) ==
  [ modelManager |-> IF Option(options, "modelManager") # "none"
                     THEN options.modelManager ELSE "default",
    llmClient |-> IF Option(options, "llmClient") # "none"
                  THEN options.llmClient ELSE "default" ]

\* the options object createAIOrchestrator builds from its config
FactoryOptions(config) ==
  [ modelStrategy |-> IF Option(config, "modelStrategy") # "none"
                      THEN config.modelStrategy ELSE "BALANCED",
    customModelManager |-> Option(config, "customModelManager"),
    customLLMClient |-> Option(config, "customLLMClient") ]

\* AIOrchestrator.configure on orchestrator o of library state lib, a record
\* of orchs, managers, tcMM and cmMM
configure(lib, o, options) ==
  LET strategy == Option(options, "modelStrategy")
      manager == Option(options, "customModelManager")
      client == Option(options, "customLLMClient")
      withStrategy ==
        IF strategy # "none"
        THEN [lib EXCEPT !.managers[lib.orchs[o].modelManager] =
                setStrategy(@, strategy)]
        ELSE lib
      withManager ==
        IF manager # "none"
        THEN [withStrategy EXCEPT !.orchs[o].modelManager = manager,
                                  !.tcMM = manager, !.cmMM = manager]
        ELSE withStrategy
  IN  IF client # "none"
      THEN [withManager EXCEPT !.orchs[o].llmClient = client]
      ELSE withManager

\* ContextManager.getContextStats; usagePercentage is the quotient of the
\* two numbers it is kept as
getContextStats(reg, contextMessages, model) ==
  LET config == getModelConfig(reg, model) IN
  [ messageCount |-> Len(contextMessages),
    totalTokens |-> TotalTokens(contextMessages),
    maxContextTokens |-> config.contextConfig.maxTokens,
    usagePercentage |-> [num |-> TotalTokens(contextMessages) * 100,
                         den |-> config.contextConfig.maxTokens],
    strategy |-> config.contextConfig.contextStrategy ]

\* steps 2 to 4 of processQuery: the request handed to callLLM, or the
\* exception that ends the call
processQueryParams(reg, types, classification, queryText, chatHistory) ==
  LET maxTokens == getTokenLimit(types, classification.task, classification.complexity)
      temperature ==
        getTemperature(types, classification.task, classification.complexity, 0)
      systemPrompt ==
        getSystemPrompt(types, classification.task, maxTokens, classification.complexity)
      contextMessages == processChatHistory(chatHistory)
      modelConfig == getModelConfig(reg, classification.model)
      selectedContext ==
        selectContextMessages(reg, contextMessages, classification.model,
                              modelConfig.contextConfig.maxContextMessages)
      optimizedContext == optimizeContext(selectedContext, maxTokens)
  IN  IF optimizedContext.threw THEN optimizedContext
      ELSE Ok([ model |-> classification.model,
                messages |-> buildMessagesArray(systemPrompt, optimizedContext.v,
                                                queryText),
                maxTokens |-> maxTokens,
                temperature |-> temperature,
                task |-> classification.task,
                complexity |-> classification.complexity,
                reason |-> classification.reason,
                contextMessages |-> [t |-> "array", items |-> optimizedContext.v] ])

\* result.metadata = { ... }
withMetadata(reg, result, classification, params) ==
  Merge(result,
        [ metadata |->
            [ classification |-> classification,
              contextStats |->
                getContextStats(reg, params.contextMessages.items, classification.model),
              modelConfig |-> getModelConfig(reg, classification.model),
              promptInfo |-> [ maxTokens |-> params.maxTokens,
                               temperature |-> params.temperature,
                               systemPrompt |-> params.messages[1].content ] ] ])

----------------------------------------------------------------------------
(* Inputs of the ContextManager operations *)

\* message texts: empty, 40, 400 and 500 characters, told apart by their
\* character, and the content of a turn that has no text
CtxContents ==
  { JStr(""), JStr(Repeat("a", 40)), JStr(Repeat("b", 400)), JStr(Repeat("c", 500)),
    JUndefined }

CtxMessages == { [role |-> "user", content |-> c] : c \in CtxContents }

RECURSIVE SeqsUpTo(_, _)
SeqsUpTo(S, n) ==
  IF n = 0 THEN {<<>>}
  ELSE LET shorter == SeqsUpTo(S, n - 1)
       IN  shorter \cup { Append(s, x) : s \in { q \in shorter : Len(q) = n - 1 }, x \in S }

\* token budgets; 90 is one where the double product differs from 7n/10;
\* 51 and 52 leave 25 and 26 tokens after a message of 40 characters
TokenBudgets == {0, 10, 51, 52, 90, 150, 200, 300, 1000}

InitOps ==
  /\ op = "none"
  /\ arg = <<>>
  /\ res = <<>>

\* the state once the modules are loaded: the registries as written, the
\* default ModelManager, TaskClassifier, ContextManager and LLMClient, and
\* the default orchestrator, the first of the orchestrators
InitLibrary ==
  /\ registry = MODEL_REGISTRY
  /\ managers = [ x \in {"default"} |-> NewManager("BALANCED") ]
  /\ taskTypes = TASK_TYPES
  /\ clients = [ x \in {"default"} |-> NewLLMClient ]
  /\ orchs = << Merge(NewAIOrchestrator(NoOptions),
                      [suppliedManager |-> "none", suppliedClient |-> "none"]) >>
  /\ tcMM = "default"
  /\ cmMM = "default"

\* no asynchronous call yet
Nothing == [t |-> "nothing"]

Idle ==
  [ fn |-> "none", pc |-> "idle", orch |-> "none", client |-> "none",
    query |-> Nothing, history |-> Nothing, analysis |-> Nothing,
    classification |-> Nothing, params |-> Nothing, outcome |-> Nothing,
    result |-> Nothing ]

InitCall ==
  /\ call = Idle
  /\ http = <<>>

libVars == <<registry, managers, taskTypes, clients, orchs, tcMM, cmMM>>
orchVars == <<orchs, tcMM, cmMM>>
callVars == <<call, http>>

InitCtx == InitOps /\ InitLibrary /\ InitCall

\* optimizeContext reads no state: it is applied to each input once
OptimizeContextOp ==
  \E msgs \in SeqsUpTo(CtxMessages, MaxMsgs), maxTokens \in TokenBudgets :
    /\ op = "none"
    /\ op' = "optimizeContext"
    /\ arg' = [contextMessages |-> msgs, maxTokens |-> maxTokens]
    /\ res' = optimizeContext(msgs, maxTokens)
    /\ UNCHANGED <<libVars, callVars>>

\* turns with and without a user text, with a response, an empty one and none
Turns ==
  { [user |-> u, response |-> r] :
      u \in {JStr("a"), JStr("c"), JUndefined},
      r \in {JStr("b"), JStr(""), JUndefined} }

\* chat histories: none, one without a turn list, and the turn lists
ChatHistories ==
  { JNull, [t |-> "object", messages |-> JUndefined] }
    \cup { [t |-> "object", messages |-> [t |-> "array", items |-> turns]] :
             turns \in SeqsUpTo(Turns, MaxTurns) }

\* processChatHistory reads no state: it is applied to each history once
ProcessChatHistoryOp ==
  \E chatHistory \in ChatHistories :
    /\ op = "none"
    /\ op' = "processChatHistory"
    /\ arg' = [chatHistory |-> chatHistory]
    /\ res' = processChatHistory(chatHistory)
    /\ UNCHANGED <<libVars, callVars>>

NextCtx ==
  \/ OptimizeContextOp
  \/ ProcessChatHistoryOp

SpecCtx == InitCtx /\ [][NextCtx]_vars

----------------------------------------------------------------------------
(* The ModelManager driven directly *)

Buckets == {"SHORT", "MEDIUM", "LONG", "VERY_LONG"}

\* strategy names a caller passes: the four supported ones and others
StrategyNames ==
  DOMAIN MODEL_SELECTION_STRATEGIES \cup {"FASTEST", "balanced", "constructor"}

\* complexity values a caller passes: the four buckets and others
ComplexityValues == Buckets \cup {"HUGE", "short", "toString"}

ManagerIds == {"default", "mmA"}

CustomModelIds == {"my-model", "gpt-4"}

CustomModelConfigs ==
  { [provider |-> "openai", maxTokens |-> 4096, costPer1kTokens |-> 100,
     contextConfig |-> [maxContextMessages |-> 2, maxTokens |-> 1000,
                        contextStrategy |-> "minimal"]],
    [provider |-> "groq", maxTokens |-> 2048, costPer1kTokens |-> 7,
     contextConfig |-> [maxContextMessages |-> 1, maxTokens |-> 500,
                        contextStrategy |-> "sliding"]] }

\* the number of registry entries written by addCustomModel so far is not
\* kept by the program; the model counts the entries that differ
CustomCount == Cardinality({ x \in DOMAIN registry :
                              x \notin DOMAIN MODEL_REGISTRY
                              \/ registry[x] # MODEL_REGISTRY[x] })

NewModelManagerOp ==
  \E id \in ManagerIds \ {"default"}, strategy \in StrategyNames :
    /\ managers' = [ x \in DOMAIN managers \cup {id} |->
                       IF x = id THEN NewManager(strategy) ELSE managers[x] ]
    /\ op' = "new ModelManager"
    /\ arg' = [manager |-> id, strategy |-> strategy]
    /\ res' = <<>>
    /\ UNCHANGED <<registry, taskTypes, clients, orchVars, callVars>>

SetStrategyOp ==
  \E id \in DOMAIN managers, strategy \in StrategyNames :
    /\ managers' = [managers EXCEPT ![id] = setStrategy(managers[id], strategy)]
    /\ op' = "setStrategy"
    /\ arg' = [manager |-> id, strategy |-> strategy, before |-> managers[id]]
    /\ res' = <<>>
    /\ UNCHANGED <<registry, taskTypes, clients, orchVars, callVars>>

AddCustomModelOp ==
  \E id \in CustomModelIds, config \in CustomModelConfigs :
    /\ CustomCount < MaxCustomModels
    /\ registry' = addCustomModel(registry, id, config)
    /\ op' = "addCustomModel"
    /\ arg' = [modelId |-> id]
    /\ res' = <<>>
    /\ UNCHANGED <<managers, taskTypes, clients, orchVars, callVars>>

GetModelForComplexityOp ==
  \E id \in DOMAIN managers, complexity \in ComplexityValues :
    /\ op' = "getModelForComplexity"
    /\ arg' = [manager |-> id, complexity |-> complexity]
    /\ res' = getModelForComplexity(managers[id], complexity)
    /\ UNCHANGED <<libVars, callVars>>

NextMM ==
  \/ NewModelManagerOp
  \/ SetStrategyOp
  \/ AddCustomModelOp
  \/ GetModelForComplexityOp

SpecMM == InitCtx /\ [][NextMM]_vars

----------------------------------------------------------------------------
(* The outcomes of an HTTP request *)

\* what fetch does with the completion request of a direct callLLM: it
\* throws, or it returns a response with a status and a body that may fail
\* to be read
CompletionOutcomes ==
  { [kind |-> "throw", message |-> "Failed to fetch"] }
    \cup { [kind |-> "response", status |-> st, body |-> b, readable |-> r] :
             st \in {200, 201, 404, 500},
             b \in { "{\"id\":\"c1\",\"choices\":[{\"message\":{\"content\":\"Hi\"}}]}",
                     "{\"model\":\"served-model\",\"success\":false,\"task\":\"other\"}",
                     "Unauthorized" },
             r \in BOOLEAN }

\* the outcomes of the completion request of processQuery
PipelineCompletionOutcomes ==
  { [kind |-> "throw", message |-> "Failed to fetch"],
    [kind |-> "response", status |-> 200, readable |-> TRUE,
     body |-> "{\"id\":\"c1\",\"choices\":[{\"message\":{\"content\":\"Hi\"}}]}"],
    [kind |-> "response", status |-> 200, readable |-> TRUE,
     body |-> "{\"model\":\"served-model\",\"success\":false,\"task\":\"other\"}"],
    [kind |-> "response", status |-> 500, readable |-> TRUE, body |-> "Unauthorized"] }

\* what fetch does with the classification request of a direct classifyQuery
ClassificationOutcomes ==
  { [kind |-> "throw", message |-> "Failed to fetch"],
    [kind |-> "response", status |-> 500, readable |-> TRUE,
     body |-> "{\"error\":\"overloaded\"}"],
    [kind |-> "response", status |-> 200, readable |-> FALSE,
     body |-> "{\"choices\":[{\"message\":{\"content\":\" LLM_Analysis\\n\"}}]}"] }
    \cup { [kind |-> "response", status |-> 200, readable |-> TRUE, body |-> b] :
             b \in { "{\"choices\":[{\"message\":{\"content\":\" LLM_Analysis\\n\"}}]}",
                     "{\"choices\":[{\"message\":{\"content\":\"Analysis\"}}]}",
                     "{\"choices\":[{\"message\":{\"content\":null}}]}",
                     "{\"choices\":[{\"text\":\"LLM_Summary\"}]}",
                     "{\"choices\":[]}",
                     "{\"error\":\"overloaded\"}",
                     "null",
                     "<html>Bad gateway</html>" } }

\* the outcomes of the classification request of processQuery
PipelineClassificationOutcomes ==
  { [kind |-> "throw", message |-> "Failed to fetch"],
    [kind |-> "response", status |-> 200, readable |-> TRUE,
     body |-> "{\"choices\":[{\"message\":{\"content\":\" LLM_Analysis\\n\"}}]}"] }

\* the request in the log, marked once its outcome is known
Answered(requests) ==
  [ i \in 1..Len(requests) |-> [requests[i] EXCEPT !.answered = TRUE] ]

\* processQuery from its classification on: the call and the request log
\* once the completion request is sent or the call has ended
ContinueProcessQuery(started, classification, requests) ==
  LET o == orchs[started.orch]
      params == processQueryParams(registry, taskTypes, classification,
                                   started.query, started.history)
      classified == [started EXCEPT !.classification = classification]
  IN  IF params.threw
      THEN [ call |-> [classified EXCEPT !.pc = "rejected", !.result = params.e],
             http |-> requests ]
      ELSE
        LET before == callLLMBeforeFetch(clients[o.llmClient], params.v)
            ready == [classified EXCEPT !.params = params.v, !.client = o.llmClient]
        IN  IF before.sent
            THEN [ call |-> [ready EXCEPT !.pc = "awaitCompletion"],
                   http |-> Append(requests,
                                   [kind |-> "completion", client |-> o.llmClient,
                                    answered |-> FALSE, request |-> before.request]) ]
            ELSE IF before.returned.threw
            THEN [ call |-> [ready EXCEPT !.pc = "rejected",
                                          !.result = before.returned.e],
                   http |-> requests ]
            ELSE [ call |-> [ready EXCEPT !.pc = "resolved",
                                          !.result = withMetadata(registry,
                                            before.returned.v, classification, params.v)],
                   http |-> requests ]

----------------------------------------------------------------------------
(* The selection of context messages driven directly *)

\* a history of k messages, told apart by the length of their text
HistoryOf(k) ==
  [ i \in 1..k |-> [role |-> IF i % 2 = 1 THEN "user" ELSE "assistant",
                     content |-> JStr(Repeat("m", i))] ]

\* the models named: those of the registry and one it does not hold
SelectModels == DOMAIN registry \cup {"unknown-model"}

\* selectContextMessages reads MODEL_REGISTRY alone: it is applied once to
\* each input after each change of the registry
SelectContextMessagesOp ==
  \E model \in SelectModels, k \in 0..MaxHistory, n \in 1..MaxSelect :
    /\ op \in {"none", "addCustomModel"}
    /\ op' = "selectContextMessages"
    /\ arg' = [ messages |-> HistoryOf(k), model |-> model, n |-> n,
                strategy |-> getModelConfig(registry, JStr(model))
                               .contextConfig.contextStrategy ]
    /\ res' = selectContextMessages(registry, HistoryOf(k), JStr(model), n)
    /\ UNCHANGED <<libVars, callVars>>

NextSel ==
  \/ AddCustomModelOp
  \/ SelectContextMessagesOp

SpecSel == InitCtx /\ [][NextSel]_vars

----------------------------------------------------------------------------
(* The provider rule and the cost estimate driven directly *)

\* model identifiers: those of the registry, one of each provider's family,
\* identifiers holding several family names, one in capitals, one no rule
\* matches and the empty one
ProviderModels ==
  DOMAIN MODEL_REGISTRY
    \cup { "gpt-4", "claude-3-sonnet", "my-model", "gpt-llama", "claude-mixtral",
           "claude-gpt", "gpt-claude", "GPT-4", "" }

\* getProviderFromModel reads no state: it is applied to each identifier once
GetProviderFromModelOp ==
  \E model \in ProviderModels :
    /\ op = "none"
    /\ op' = "getProviderFromModel"
    /\ arg' = [model |-> model]
    /\ res' = getProviderFromModel(JStr(model))
    /\ UNCHANGED <<libVars, callVars>>

\* the models a cost is asked for: those of the registry, one it does not
\* hold, and names every object inherits
CostModels == DOMAIN registry \cup {"unknown-model", "toString", "constructor"}

TokenCounts == {0, 1, 1000, 2500}

\* estimateCost reads MODEL_REGISTRY alone: it is applied once to each input
\* after each change of the registry
EstimateCostOp ==
  \E modelId \in CostModels, inputTokens \in TokenCounts,
     outputTokens \in {JNum(n) : n \in TokenCounts} \cup {JUndefined} :
    /\ op \in {"none", "addCustomModel"}
    /\ op' = "estimateCost"
    /\ arg' = [modelId |-> modelId, inputTokens |-> inputTokens,
               outputTokens |-> outputTokens]
    /\ res' = estimateCost(registry, JStr(modelId), JNum(inputTokens), outputTokens)
    /\ UNCHANGED <<libVars, callVars>>

NextFn ==
  \/ AddCustomModelOp
  \/ GetProviderFromModelOp
  \/ EstimateCostOp

SpecFn == InitCtx /\ [][NextFn]_vars

----------------------------------------------------------------------------
(* The analyzer and the keyword scan driven directly *)

\* text padded with a filler character to n characters
PadTo(text, n) == text \o Repeat("0", n - Len(text))

TextCores ==
  { "hello there", "Please REVIEW this", "a preview", "Summarize and create",
    "create a summary", "convert and explain", "  brainstorm  ",
    "review code please", "what is a poem" }

TextLengths == { 100, 101, 500, 501, 1000, 1001 }

\* the values handed over as text: strings around every threshold, and
\* values that are no text
NonTexts == { JStr(""), JNull, JUndefined, JNum(0), JNum(42) }

TextValues ==
  { JStr(c) : c \in TextCores }
    \cup { JStr(PadTo(c, n)) : c \in TextCores, n \in TextLengths }
    \cup NonTexts

\* the queries of the keyword scan and of the pipeline: short texts, two
\* longer ones, and the values that are no text
QueryValues ==
  { JStr(c) : c \in TextCores }
    \cup { JStr(PadTo("hello there", 101)), JStr(PadTo("a preview", 501)) }
    \cup NonTexts

CustomTasks ==
  { [id |-> "LLM_CodeReview", maxTokens |-> 1500, temperature |-> 2,
     keywords |-> <<"review code", "code review">>],
    [id |-> "LLM_Poetry", maxTokens |-> 800, temperature |-> 9,
     keywords |-> <<"poem", "create">>],
    [id |-> "LLM_Creation", maxTokens |-> 1500, temperature |-> 7,
     keywords |-> <<"story">>] }

CustomTaskCount ==
  Cardinality({ i \in 1..Len(taskTypes) :
                  \A j \in 1..Len(TASK_TYPES) : taskTypes[i] # TASK_TYPES[j] })

\* analyze reads no state: it is applied to each text once
AnalyzeOp ==
  \E text \in TextValues :
    /\ op = "none"
    /\ op' = "analyze"
    /\ arg' = [text |-> text]
    /\ res' = analyze(text)
    /\ UNCHANGED <<libVars, callVars>>

\* determineTaskType reads TASK_TYPES alone: it is applied once to each
\* query after each change of TASK_TYPES
DetermineTaskTypeOp ==
  \E text \in QueryValues :
    /\ op \in {"none", "addCustomTask"}
    /\ op' = "determineTaskType"
    /\ arg' = [queryText |-> text]
    /\ res' = determineTaskType(taskTypes, text)
    /\ UNCHANGED <<libVars, callVars>>

AddCustomTaskOp ==
  \E task \in CustomTasks :
    /\ call.pc = "idle"
    /\ CustomTaskCount < MaxCustomTasks
    /\ taskTypes' = addCustomTask(taskTypes, task.id, task)
    /\ op' = "addCustomTask"
    /\ arg' = [taskType |-> task.id]
    /\ res' = <<>>
    /\ UNCHANGED <<registry, managers, clients, orchVars, callVars>>

\* taskClassifier.classifyQuery(queryText) on the default classifier, up to
\* the fetch; it is applied once to each query after each change of TASK_TYPES
ClassifyQueryOp ==
  \E text \in QueryValues :
    /\ call.pc = "idle"
    /\ op \in {"none", "addCustomTask"}
    /\ LET before == classifyBeforeFetch(managers[tcMM], taskTypes, text)
           started == [Idle EXCEPT !.fn = "classifyQuery", !.query = text]
       IN  CASE before.kind = "throw" ->
                  /\ call' = [started EXCEPT !.pc = "rejected", !.result = before.e]
                  /\ http' = <<>>
             [] before.kind = "return" ->
                  /\ call' = [started EXCEPT !.pc = "resolved",
                                             !.classification = before.classification,
                                             !.result = before.classification]
                  /\ http' = <<>>
             [] before.kind = "fetch" ->
                  /\ call' = [started EXCEPT !.pc = "awaitClassification",
                                             !.analysis = before.analysis]
                  /\ http' = << [kind |-> "classification", client |-> "fetch",
                                 answered |-> FALSE, request |-> before.request] >>
    /\ op' = "classifyQuery"
    /\ arg' = [queryText |-> text]
    /\ res' = <<>>
    /\ UNCHANGED libVars

\* the outcome of the classification request arrives
ClassificationResponds ==
  \E outcome \in IF call.fn = "classifyQuery" THEN ClassificationOutcomes
                  ELSE PipelineClassificationOutcomes :
    /\ call.pc = "awaitClassification"
    /\ LET classification == classifyAfterFetch(call.analysis, outcome)
           next == IF call.fn = "classifyQuery"
                   THEN [ call |-> [call EXCEPT !.pc = "resolved",
                                                !.outcome = outcome,
                                                !.classification = classification,
                                                !.result = classification],
                          http |-> Answered(http) ]
                   ELSE ContinueProcessQuery(call, classification, Answered(http))
       IN  /\ call' = next.call
           /\ http' = next.http
    /\ UNCHANGED <<opVars, libVars>>

NextCls ==
  \/ AnalyzeOp
  \/ DetermineTaskTypeOp
  \/ AddCustomTaskOp
  \/ ClassifyQueryOp
  \/ ClassificationResponds

SpecCls == InitCtx /\ [][NextCls]_vars

----------------------------------------------------------------------------
(* The completion request *)

\* the outcome of the completion request arrives
CompletionResponds ==
  \E outcome \in IF call.fn = "callLLM" THEN CompletionOutcomes
                  ELSE PipelineCompletionOutcomes :
    /\ call.pc = "awaitCompletion"
    /\ LET returned == callLLMAfterFetch(call.params, outcome)
           result == IF call.fn = "processQuery"
                     THEN withMetadata(registry, returned.v, call.classification,
                                       call.params)
                     ELSE returned.v
       IN  call' = IF returned.threw
                   THEN [call EXCEPT !.pc = "rejected", !.outcome = outcome,
                                     !.result = returned.e]
                   ELSE [call EXCEPT !.pc = "resolved", !.outcome = outcome,
                                     !.result = result]
    /\ http' = Answered(http)
    /\ UNCHANGED <<opVars, libVars>>

----------------------------------------------------------------------------
(* The LLMClient driven directly *)

ClientIds == {"default", "llmA"}

Providers == {"groq", "openai", "anthropic"}

ApiKeys == { JStr("sk-1"), JNull }

Endpoints == { JStr("https://proxy.example/v1/chat") }

\* the model of a request: registry models of each provider, an identifier
\* no rule matches, and a request without a model
RequestModels ==
  { JStr("llama3-8b-8192"), JStr("gpt-4"), JStr("claude-3-sonnet"),
    JStr("my-model"), JUndefined }

DirectParams ==
  { [ model |-> m,
      messages |-> <<[role |-> "user", content |-> JStr("Hello")]>>,
      maxTokens |-> 10, temperature |-> 1, task |-> "LLM_Default",
      complexity |-> "SHORT", reason |-> "Test",
      contextMessages |-> [t |-> "array", items |-> <<>>] ] : m \in RequestModels }

\* the client is configured before the call is made
SetApiKeyOp ==
  \E id \in DOMAIN clients, provider \in Providers, key \in ApiKeys :
    /\ call.pc = "idle"
    /\ clients' = [clients EXCEPT ![id] = setApiKey(clients[id], provider, key)]
    /\ op' = "setApiKey"
    /\ arg' = [client |-> id, provider |-> provider, value |-> key,
               before |-> clients[id]]
    /\ res' = <<>>
    /\ UNCHANGED <<registry, managers, taskTypes, orchVars, callVars>>

SetEndpointOp ==
  \E id \in DOMAIN clients, provider \in Providers, endpoint \in Endpoints :
    /\ call.pc = "idle"
    /\ clients' = [clients EXCEPT ![id] = setEndpoint(clients[id], provider, endpoint)]
    /\ op' = "setEndpoint"
    /\ arg' = [client |-> id, provider |-> provider, value |-> endpoint,
               before |-> clients[id]]
    /\ res' = <<>>
    /\ UNCHANGED <<registry, managers, taskTypes, orchVars, callVars>>

\* client.callLLM(params), up to the fetch
CallLLMOp ==
  \E id \in DOMAIN clients, params \in DirectParams :
    /\ call.pc = "idle"
    /\ LET before == callLLMBeforeFetch(clients[id], params)
           started == [Idle EXCEPT !.fn = "callLLM", !.client = id, !.params = params]
       IN  IF before.sent
           THEN /\ call' = [started EXCEPT !.pc = "awaitCompletion"]
                /\ http' = << [kind |-> "completion", client |-> id,
                               answered |-> FALSE, request |-> before.request] >>
           ELSE /\ call' = IF before.returned.threw
                           THEN [started EXCEPT !.pc = "rejected",
                                                !.result = before.returned.e]
                           ELSE [started EXCEPT !.pc = "resolved",
                                                !.result = before.returned.v]
                /\ http' = <<>>
    /\ UNCHANGED <<opVars, libVars>>

NextLLM ==
  \/ SetApiKeyOp
  \/ SetEndpointOp
  \/ CallLLMOp
  \/ CompletionResponds

SpecLLM == InitCtx /\ [][NextLLM]_vars

----------------------------------------------------------------------------
(* callLLM on the models of the registry *)

\* the registry is extended before the call is made
AddCustomModelIdleOp ==
  /\ call.pc = "idle"
  /\ AddCustomModelOp

\* client.callLLM(params) for a model of the registry, up to the fetch
CallRegistryModelOp ==
  \E id \in DOMAIN clients, model \in DOMAIN registry :
    /\ call.pc = "idle"
    /\ LET params == [ model |-> JStr(model),
                       messages |-> <<[role |-> "user", content |-> JStr("Hello")]>>,
                       maxTokens |-> 10, temperature |-> 1, task |-> "LLM_Default",
                       complexity |-> "SHORT", reason |-> "Test",
                       contextMessages |-> [t |-> "array", items |-> <<>>] ]
           before == callLLMBeforeFetch(clients[id], params)
           started == [Idle EXCEPT !.fn = "callLLM", !.client = id, !.params = params]
       IN  IF before.sent
           THEN /\ call' = [started EXCEPT !.pc = "awaitCompletion"]
                /\ http' = << [kind |-> "completion", client |-> id,
                               answered |-> FALSE, request |-> before.request] >>
           ELSE /\ call' = IF before.returned.threw
                           THEN [started EXCEPT !.pc = "rejected",
                                                !.result = before.returned.e]
                           ELSE [started EXCEPT !.pc = "resolved",
                                                !.result = before.returned.v]
                /\ http' = <<>>
    /\ UNCHANGED <<opVars, libVars>>

NextReg ==
  \/ AddCustomModelIdleOp
  \/ SetApiKeyOp
  \/ CallRegistryModelOp
  \/ CompletionResponds

SpecReg == InitCtx /\ [][NextReg]_vars

----------------------------------------------------------------------------
(* The orchestrator: it is created and configured, then runs one query *)

\* the components a caller builds to hand over: "mmA" is
\* new ModelManager("QUALITY_OPTIMIZED"), "llmA" is new LLMClient()
EnsureManager(ms, id) ==
  IF id = "none" \/ id \in DOMAIN ms THEN ms
  ELSE [ x \in DOMAIN ms \cup {id} |->
           IF x = id THEN NewManager("QUALITY_OPTIMIZED") ELSE ms[x] ]

EnsureClient(cs, id) ==
  IF id = "none" \/ id \in DOMAIN cs THEN cs
  ELSE [ x \in DOMAIN cs \cup {id} |-> IF x = id THEN NewLLMClient ELSE cs[x] ]

\* the configs handed to createAIOrchestrator: none, a preset's, the ones
\* with a replacement component, and the one of the README's example
FactoryConfigs ==
  { NoOptions,
    [modelStrategy |-> "COST_OPTIMIZED"],
    [customModelManager |-> "mmA"],
    [customLLMClient |-> "llmA"],
    [modelManager |-> "mmA"] }

ConstructorOptions ==
  { NoOptions, [modelManager |-> "mmA", llmClient |-> "llmA"] }

ConfigureOptions ==
  { [modelStrategy |-> "SPEED_OPTIMIZED"],
    [customModelManager |-> "mmA", customLLMClient |-> "llmA"] }

\* queries: one no keyword matches, one with a keyword in capitals, and
\* values that are no text
PipelineQueries ==
  { JStr("hello there"), JStr("Please REVIEW this"), JStr(""), JNull, JNum(42) }

\* chat histories: none, one without a turn list, an empty turn list, turns
\* with and without a response, and a turn without a user text
Histories ==
  { JNull,
    [t |-> "object", messages |-> JUndefined],
    [t |-> "object", messages |-> [t |-> "array", items |-> <<>>]],
    [t |-> "object", messages |-> [t |-> "array", items |->
       << [user |-> JStr("Hi"), response |-> JStr("Hello!")],
          [user |-> JStr("Tell me more"), response |-> JUndefined] >>]],
    [t |-> "object", messages |-> [t |-> "array", items |->
       << [user |-> JUndefined, response |-> JStr("Hello!")] >>]] }

\* the library state configure works on
Library == [orchs |-> orchs, managers |-> managers, tcMM |-> tcMM, cmMM |-> cmMM]

\* createAIOrchestrator(config); the orchestrator is kept with the
\* components the caller supplied
CreateAIOrchestratorOp ==
  \E config \in FactoryConfigs :
    /\ call.pc = "idle"
    /\ Len(orchs) - 1 < MaxOrchs
    /\ LET suppliedManager ==
             IF Option(config, "customModelManager") # "none"
             THEN config.customModelManager ELSE Option(config, "modelManager")
           suppliedClient == Option(config, "customLLMClient")
           built == NewAIOrchestrator(FactoryOptions(config))
           constructed ==
             [ orchs |-> Append(orchs, Merge(built,
                            [suppliedManager |-> suppliedManager,
                             suppliedClient |-> suppliedClient])),
               managers |-> EnsureManager(managers, suppliedManager),
               tcMM |-> built.modelManager,
               cmMM |-> built.modelManager ]
           configured ==
             IF Option(config, "modelStrategy") # "none"
             THEN configure(constructed, Len(orchs) + 1,
                            [modelStrategy |-> config.modelStrategy])
             ELSE constructed
       IN  /\ orchs' = configured.orchs
           /\ managers' = configured.managers
           /\ tcMM' = configured.tcMM
           /\ cmMM' = configured.cmMM
           /\ clients' = EnsureClient(clients, suppliedClient)
    /\ UNCHANGED <<opVars, registry, taskTypes, callVars>>

\* new AIOrchestrator(options)
NewAIOrchestratorOp ==
  \E options \in ConstructorOptions :
    /\ call.pc = "idle"
    /\ Len(orchs) - 1 < MaxOrchs
    /\ LET built == NewAIOrchestrator(options) IN
       /\ orchs' = Append(orchs, Merge(built,
                      [suppliedManager |-> Option(options, "modelManager"),
                       suppliedClient |-> Option(options, "llmClient")]))
       /\ managers' = EnsureManager(managers, Option(options, "modelManager"))
       /\ clients' = EnsureClient(clients, Option(options, "llmClient"))
       /\ tcMM' = built.modelManager
       /\ cmMM' = built.modelManager
    /\ UNCHANGED <<opVars, registry, taskTypes, callVars>>

\* orchestrator.configure(options)
ConfigureOp ==
  \E o \in 1..Len(orchs), options \in ConfigureOptions :
    /\ call.pc = "idle"
    /\ LET manager == Option(options, "customModelManager")
           client == Option(options, "customLLMClient")
           supplied ==
             [ Library EXCEPT
                 !.managers = EnsureManager(managers, manager),
                 !.orchs[o].suppliedManager = IF manager # "none" THEN manager ELSE @,
                 !.orchs[o].suppliedClient = IF client # "none" THEN client ELSE @ ]
           configured == configure(supplied, o, options)
       IN  /\ orchs' = configured.orchs
           /\ managers' = configured.managers
           /\ tcMM' = configured.tcMM
           /\ cmMM' = configured.cmMM
           /\ clients' = EnsureClient(clients, client)
    /\ UNCHANGED <<opVars, registry, taskTypes, callVars>>

\* orchestrator.processQuery(queryText, chatHistory), up to its first fetch
ProcessQueryOp ==
  \E o \in 1..Len(orchs), queryText \in PipelineQueries, chatHistory \in Histories :
    /\ call.pc = "idle"
    /\ LET started == [Idle EXCEPT !.fn = "processQuery", !.orch = o,
                                   !.query = queryText, !.history = chatHistory]
           before == classifyBeforeFetch(managers[tcMM], taskTypes, queryText)
           next ==
             CASE before.kind = "throw" ->
                    [ call |-> [started EXCEPT !.pc = "rejected", !.result = before.e],
                      http |-> <<>> ]
               [] before.kind = "fetch" ->
                    [ call |-> [started EXCEPT !.pc = "awaitClassification",
                                               !.analysis = before.analysis],
                      http |-> << [kind |-> "classification", client |-> "fetch",
                                   answered |-> FALSE, request |-> before.request] >> ]
               [] before.kind = "return" ->
                    ContinueProcessQuery(started, before.classification, <<>>)
       IN  /\ call' = next.call
           /\ http' = next.http
    /\ UNCHANGED <<opVars, libVars>>

Init == InitCtx

Next ==
  \/ CreateAIOrchestratorOp
  \/ NewAIOrchestratorOp
  \/ ConfigureOp
  \/ ProcessQueryOp
  \/ ClassificationResponds
  \/ CompletionResponds

Spec == Init /\ [][Next]_vars

----------------------------------------------------------------------------
(* C1 *)

\* C1: the messages optimizeContext returns have a total estimated token
\* count of at most floor(0.7 * maxTokens).
C1_WithinBudget ==
  (op = "optimizeContext" /\ ~res.threw)
    => TotalTokens(res.v) <= FloorSeventyPercent(arg.maxTokens)

----------------------------------------------------------------------------
(* C7 *)

SupportedStrategies ==
  {"COST_OPTIMIZED", "QUALITY_OPTIMIZED", "SPEED_OPTIMIZED", "BALANCED"}

\* C7: whatever strategy names were passed to the constructor and to
\* setStrategy, getModelForComplexity returns a model identifier present in
\* the registry, for the four buckets and for any other complexity value;
\* a complexity that is no bucket yields the model of the SHORT bucket, and
\* setStrategy with an unsupported name leaves the mapping as it was.
C7_ResolvesToRegistryModel ==
  /\ op = "getModelForComplexity"
       => /\ res.t = "string"
          /\ res.s \in DOMAIN registry
          /\ arg.complexity \notin {"SHORT", "MEDIUM", "LONG", "VERY_LONG"}
               => res = getModelForComplexity(managers[arg.manager], "SHORT")
  /\ (op = "setStrategy" /\ arg.strategy \notin SupportedStrategies)
       => managers[arg.manager].models = arg.before.models

----------------------------------------------------------------------------
(* C8 *)

AnalyticalWords ==
  { "analyze", "analyse", "compare", "evaluate", "summarize", "summarise",
    "explain", "discuss", "research", "study", "review", "assess" }

HasAnalyticalWord(text) ==
  LET lowered == ToLowerCase(text) IN \E w \in AnalyticalWords : Includes(lowered, w)

\* C8: for a non-empty string the bucket is SHORT up to 100 characters,
\* MEDIUM up to 500, LONG up to 1000 and VERY_LONG beyond, except that a
\* text of at most 100 characters holding an analytical keyword (in any
\* letter case) is MEDIUM; a keyword changes no other bucket.
C8_ComplexityBuckets ==
  (op = "analyze" /\ arg.text.t = "string" /\ arg.text.s # "")
    => LET n == Len(arg.text.s) IN
       res.complexity =
         IF n <= 100 THEN (IF HasAnalyticalWord(arg.text.s) THEN "MEDIUM" ELSE "SHORT")
         ELSE IF n <= 500 THEN "MEDIUM"
         ELSE IF n <= 1000 THEN "LONG"
         ELSE "VERY_LONG"

\* a text of exactly 100 characters without a keyword was found SHORT, or one
\* with a keyword in capitals was upgraded
C8_Witness ==
  /\ op = "analyze"
  /\ arg.text.t = "string"
  /\ \/ Len(arg.text.s) = 100 /\ ~HasAnalyticalWord(arg.text.s)
        /\ res.complexity = "SHORT"
     \/ Len(arg.text.s) <= 100 /\ Includes(arg.text.s, "REVIEW")
        /\ res.complexity = "MEDIUM"

----------------------------------------------------------------------------
(* C10 *)

\* the places in TASK_TYPES of the tasks, other than the default one, a
\* keyword of which occurs in the lowercased query
MatchingPlaces(text) ==
  LET lowered == ToLowerCase(text) IN
  { i \in 1..Len(taskTypes) :
      /\ taskTypes[i].id # "LLM_Default"
      /\ \E k \in 1..Len(taskTypes[i].keywords) :
            Includes(lowered, taskTypes[i].keywords[k]) }

\* C10: determineTaskType returns the earliest registered task, the default
\* one skipped, a keyword of which occurs in the lowercased query, and
\* LLM_Default when there is none.
C10_FirstRegisteredMatch ==
  (op = "determineTaskType" /\ ~res.threw)
    => LET places == MatchingPlaces(arg.queryText.s) IN
       IF places = {} THEN res.v = "LLM_Default"
       ELSE \E i \in places :
              /\ \A j \in places : i <= j
              /\ res.v = taskTypes[i].id

\* a query holding keywords of several tasks was scanned
C10_Witness ==
  /\ op = "determineTaskType"
  /\ ~res.threw
  /\ Cardinality({ taskTypes[i].id : i \in MatchingPlaces(arg.queryText.s) }) >= 2

----------------------------------------------------------------------------
(* C3 *)

\* C3: callLLM never throws: it resolves to an envelope, with success true
\* when the status is 2xx (and the body was read), and with success false
\* and the raw error text when the status is not 2xx or when the transport
\* or the reading of the response throws.
C3_CallLLMNeverThrows ==
  call.fn = "callLLM"
    => /\ call.pc # "rejected"
       /\ call.pc = "resolved"
            => /\ call.result.success \in BOOLEAN
               /\ call.outcome = Nothing
                    => ~call.result.success
               /\ (call.outcome # Nothing /\ call.outcome.kind = "throw")
                    => /\ ~call.result.success
                       /\ call.result.details = call.outcome.message
               /\ (call.outcome # Nothing /\ call.outcome.kind = "response")
                    => IF ~call.outcome.readable
                       THEN ~call.result.success
                       ELSE IF call.outcome.status \notin 200..299
                       THEN /\ ~call.result.success
                            /\ call.result.details = call.outcome.body
                       ELSE IF call.outcome.body \in DOMAIN JsonBodies
                       THEN call.result.success
                       ELSE ~call.result.success

\* a call whose transport threw has resolved to an error envelope
C3_Witness ==
  /\ call.fn = "callLLM"
  /\ call.pc = "resolved"
  /\ call.outcome # Nothing
  /\ call.outcome.kind = "throw"
  /\ ~call.result.success

----------------------------------------------------------------------------
(* C9 *)

\* C9: classifyQuery on an empty string, null, undefined or a value that is
\* no string returns task LLM_Default with complexity SHORT.
C9_InvalidTextIsDefault ==
  (call.fn = "classifyQuery" /\ (call.query.t # "string" \/ call.query.s = ""))
    => /\ call.pc = "resolved"
       /\ call.result.task = "LLM_Default"
       /\ call.result.complexity = "SHORT"

----------------------------------------------------------------------------
(* C2 *)

\* C2: whatever the query, the history and the outcomes of the two HTTP
\* calls, processQuery never rejects, and what it resolves to carries a
\* boolean success flag.
C2_ProcessQueryNeverRejects ==
  call.fn = "processQuery"
    => /\ call.pc # "rejected"
       /\ call.pc = "resolved" => call.result.success \in BOOLEAN

----------------------------------------------------------------------------
(* C4 *)

Requests(kind) == { i \in 1..Len(http) : http[i].kind = kind }

\* C4: an execution of processQuery issues at most two HTTP calls: at most
\* one classification call, only when no task keyword matches the query and
\* answered before the completion call is issued, and, once the execution
\* has ended, exactly one completion call.
C4_AtMostTwoCalls ==
  call.fn = "processQuery"
    => /\ Len(http) <= 2
       /\ Cardinality(Requests("classification")) <= 1
       /\ Requests("classification") # {}
            => /\ call.query.t = "string"
               /\ MatchingPlaces(call.query.s) = {}
       /\ \A i \in Requests("classification"), j \in Requests("completion") :
            i < j /\ http[i].answered
       /\ Cardinality(Requests("completion")) <= 1
       /\ call.pc \in {"resolved", "rejected"}
            => Cardinality(Requests("completion")) = 1

----------------------------------------------------------------------------
(* C5 *)

\* C5: for a non-empty query the model of the classification result, which
\* is the model of the completion request, is the one the orchestrator's
\* ModelManager maps the query's complexity bucket to.
C5_ModelFollowsStrategy ==
  (call.fn = "processQuery" /\ call.classification # Nothing /\ Truthy(call.query))
    => /\ call.classification.model =
            getModelForComplexity(managers[orchs[call.orch].modelManager],
                                  call.classification.complexity)
       /\ \A i \in Requests("completion") :
            http[i].request.body.model = call.classification.model

----------------------------------------------------------------------------
(* C6 *)

\* C6: an orchestrator given a replacement ModelManager or LLMClient holds
\* that component, and the completion request of its processQuery goes
\* through the supplied client.
C6_SuppliedComponentUsed ==
  /\ \A o \in 1..Len(orchs) :
       /\ orchs[o].suppliedManager # "none"
            => orchs[o].modelManager = orchs[o].suppliedManager
       /\ orchs[o].suppliedClient # "none"
            => orchs[o].llmClient = orchs[o].suppliedClient
  /\ (call.fn = "processQuery" /\ orchs[call.orch].suppliedClient # "none")
       => \A i \in Requests("completion") :
            http[i].client = orchs[call.orch].suppliedClient

----------------------------------------------------------------------------
(* C11 *)

\* the JSON bodies without a choice holding a message with a text content
BodiesLackingChoice ==
  { "{\"choices\":[{\"message\":{\"content\":null}}]}",
    "{\"choices\":[{\"text\":\"LLM_Summary\"}]}",
    "{\"choices\":[]}",
    "{\"error\":\"overloaded\"}",
    "null" }

\* the classification call failed: the transport threw, the status is not
\* 2xx, the body could not be read or is no JSON, or it lacks a choice
ClassificationFailed(outcome) ==
  \/ outcome.kind = "throw"
  \/ /\ outcome.kind = "response"
     /\ \/ outcome.status \notin 200..299
        \/ ~outcome.readable
        \/ outcome.body \notin DOMAIN JsonBodies
        \/ outcome.body \in BodiesLackingChoice

\* C11: when no keyword matches and the classification call fails in any
\* way, classifyQuery resolves to a complete classification whose task is
\* LLM_Default.
C11_FailedCallFallsBack ==
  (call.fn = "classifyQuery" /\ call.outcome # Nothing
     /\ ClassificationFailed(call.outcome))
    => /\ call.pc = "resolved"
       /\ DOMAIN call.result = {"task", "model", "complexity", "reason"}
       /\ call.result.task = "LLM_Default"
       /\ call.result.model.t = "string"
       /\ call.result.complexity = analyze(call.query).complexity
       /\ call.result.reason = analyze(call.query).reason

\* a 2xx response whose choice has a null content was answered by the default
C11_Witness ==
  /\ call.fn = "classifyQuery"
  /\ call.pc = "resolved"
  /\ call.outcome # Nothing
  /\ call.outcome.kind = "response"
  /\ call.outcome.status = 200
  /\ call.outcome.body = "{\"choices\":[{\"message\":{\"content\":null}}]}"
  /\ call.result.task = "LLM_Default"

----------------------------------------------------------------------------
(* C12 *)

\* the last k messages, none when k is not positive
LastOf(messages, k) ==
  IF k <= 0 THEN <<>>
  ELSE SubSeq(messages, Max(1, Len(messages) - k + 1), Len(messages))

\* C12: from a history of more than N messages, N >= 1, the strategy recent
\* selects the last N messages, smart the first and the last N-1,
\* comprehensive the first, the middle one (index floor(length/2)) and the
\* last N-2, minimal the last min(N,2), and an unknown strategy the last N;
\* an empty history gives an empty list.
C12_SelectionByStrategy ==
  op = "selectContextMessages"
    => LET messages == arg.messages
           n == arg.n
       IN  /\ Len(messages) = 0 => res = <<>>
           /\ Len(messages) > n
                => res =
                     CASE arg.strategy = "smart" ->
                            <<messages[1]>> \o LastOf(messages, n - 1)
                       [] arg.strategy = "comprehensive" ->
                            <<messages[1], messages[(Len(messages) \div 2) + 1]>>
                              \o LastOf(messages, n - 2)
                       [] arg.strategy = "minimal" -> LastOf(messages, Min(n, 2))
                       [] OTHER -> LastOf(messages, n)

----------------------------------------------------------------------------
(* C13 *)

\* a turn has a response when its response is a text that is not empty
HasResponse(turn) == turn.response.t = "string" /\ turn.response.s # ""

\* the place in the output of the user message of turn i
PlaceOf(turns, i) ==
  i + Cardinality({ j \in 1..(i - 1) : HasResponse(turns[j]) })

\* C13: processChatHistory gives, for each turn in order, a user message
\* with the turn's user text, followed by an assistant message with the
\* response text when the turn has a response; the output has as many
\* messages as there are turns plus turns with a response; a null history
\* and one without a turn list give the empty list.
C13_TurnsFlattened ==
  op = "processChatHistory"
    => IF arg.chatHistory.t = "null" \/ arg.chatHistory.messages.t # "array"
       THEN res = <<>>
       ELSE LET turns == arg.chatHistory.messages.items IN
            /\ Len(res) = Len(turns)
                 + Cardinality({ i \in 1..Len(turns) : HasResponse(turns[i]) })
            /\ \A i \in 1..Len(turns) :
                 /\ res[PlaceOf(turns, i)] =
                      [role |-> "user", content |-> turns[i].user]
                 /\ HasResponse(turns[i])
                      => res[PlaceOf(turns, i) + 1] =
                           [role |-> "assistant", content |-> turns[i].response]

\* the turns a/b and c without a response gave user a, assistant b, user c
C13_Witness ==
  /\ op = "processChatHistory"
  /\ arg.chatHistory.t = "object"
  /\ arg.chatHistory.messages.t = "array"
  /\ arg.chatHistory.messages.items =
       << [user |-> JStr("a"), response |-> JStr("b")],
          [user |-> JStr("c"), response |-> JUndefined] >>
  /\ res = << [role |-> "user", content |-> JStr("a")],
              [role |-> "assistant", content |-> JStr("b")],
              [role |-> "user", content |-> JStr("c")] >>

----------------------------------------------------------------------------
(* C14 *)

\* C14: the message list of the completion request of processQuery is one
\* system message holding the system prompt, then the optimized context
\* messages in their order, then one user message holding the query text:
\* as many messages as the context has, plus two.
C14_MessageOrder ==
  call.fn = "processQuery"
    => \A i \in Requests("completion") :
         LET messages == http[i].request.body.messages
             context == call.params.contextMessages.items
             task == call.classification.task
             complexity == call.classification.complexity
         IN  /\ Len(messages) = Len(context) + 2
             /\ messages[1] =
                  [ role |-> "system",
                    content |-> getSystemPrompt(taskTypes, task,
                                  getTokenLimit(taskTypes, task, complexity),
                                  complexity) ]
             /\ \A k \in 1..Len(context) : messages[k + 1] = context[k]
             /\ messages[Len(messages)] = [role |-> "user", content |-> call.query]

\* a completion request with two or more context messages was sent
C14_Witness ==
  /\ call.fn = "processQuery"
  /\ \E i \in Requests("completion") :
       /\ Len(call.params.contextMessages.items) >= 2
       /\ Len(http[i].request.body.messages) >= 4

----------------------------------------------------------------------------
(* C15 *)

\* C15: getProviderFromModel gives groq for an identifier containing
\* "llama" or "mixtral", otherwise openai for one containing "gpt",
\* otherwise anthropic for one containing "claude", and groq for any other;
\* gpt-4 is openai, claude-3-sonnet anthropic and llama3-8b-8192 groq.
C15_ProviderRule ==
  op = "getProviderFromModel"
    => /\ ~res.threw
       /\ res.v =
            IF Includes(arg.model, "llama") \/ Includes(arg.model, "mixtral")
            THEN "groq"
            ELSE IF Includes(arg.model, "gpt") THEN "openai"
            ELSE IF Includes(arg.model, "claude") THEN "anthropic"
            ELSE "groq"
       /\ arg.model = "gpt-4" => res.v = "openai"
       /\ arg.model = "claude-3-sonnet" => res.v = "anthropic"
       /\ arg.model = "llama3-8b-8192" => res.v = "groq"

\* an identifier holding both "gpt" and "claude" was found to be openai's
C15_Witness ==
  /\ op = "getProviderFromModel"
  /\ Includes(arg.model, "gpt")
  /\ Includes(arg.model, "claude")
  /\ ~res.threw
  /\ res.v = "openai"

----------------------------------------------------------------------------
(* C16 *)

\* C16: after setApiKey or setEndpoint for provider p, the getter returns
\* the value set for p, and every other endpoint and key of the client is
\* what it was; callLLM for a model of provider p posts to p's current
\* endpoint, with the header Authorization: Bearer <key> exactly when a key
\* is configured for p.
C16_ProviderTable ==
  /\ op \in {"setApiKey", "setEndpoint"}
       => LET client == clients[arg.client] IN
          /\ op = "setApiKey" => getApiKey(client, arg.provider) = arg.value
          /\ op = "setEndpoint" => getEndpoint(client, arg.provider) = arg.value
          /\ \A q \in Providers :
               /\ (op = "setEndpoint" /\ q = arg.provider)
                    \/ getEndpoint(client, q) = getEndpoint(arg.before, q)
               /\ (op = "setApiKey" /\ q = arg.provider)
                    \/ getApiKey(client, q) = getApiKey(arg.before, q)
  /\ call.fn = "callLLM"
       => \A i \in 1..Len(http) :
            LET client == clients[call.client]
                provider == getProviderFromModel(call.params.model).v
                key == getApiKey(client, provider)
            IN  /\ http[i].request.url = getEndpoint(client, provider)
                /\ http[i].request.authorization =
                     IF key.t = "string" THEN JStr("Bearer " \o key.s) ELSE JUndefined

\* a request for an openai model went to the endpoint set for openai with
\* the key set for openai, groq having neither
C16_Witness ==
  /\ call.fn = "callLLM"
  /\ Len(http) = 1
  /\ call.params.model = JStr("gpt-4")
  /\ http[1].request.url = JStr("https://proxy.example/v1/chat")
  /\ http[1].request.authorization = JStr("Bearer sk-1")
  /\ getApiKey(clients[call.client], "groq") = JNull
  /\ getEndpoint(clients[call.client], "groq") # JStr("https://proxy.example/v1/chat")

----------------------------------------------------------------------------
(* C17 *)

\* C17: every envelope processQuery resolves to carries the request's
\* model, task, complexity and reason, the number of context messages sent,
\* a boolean success flag and a metadata field holding the classification,
\* the context statistics, the model configuration and the prompt
\* parameters; the payload's fields of the same names do not replace them.
C17_EnvelopeFields ==
  (call.fn = "processQuery" /\ call.pc = "resolved")
    => LET envelope == call.result IN
       /\ {"model", "task", "complexity", "reason", "contextMessages", "success",
           "metadata"} \subseteq DOMAIN envelope
       /\ envelope.model = call.classification.model
       /\ envelope.task = call.classification.task
       /\ envelope.complexity = call.classification.complexity
       /\ envelope.reason = call.classification.reason
       /\ \A i \in Requests("completion") :
            envelope.contextMessages = Len(http[i].request.body.messages) - 2
       /\ envelope.success \in BOOLEAN
       /\ DOMAIN envelope.metadata =
            {"classification", "contextStats", "modelConfig", "promptInfo"}
       /\ envelope.metadata.classification = call.classification
       /\ envelope.metadata.contextStats.messageCount = envelope.contextMessages
       /\ envelope.metadata.modelConfig =
            getModelConfig(registry, call.classification.model)
       /\ DOMAIN envelope.metadata.promptInfo =
            {"maxTokens", "temperature", "systemPrompt"}

\* a 2xx payload with its own model, task and success fields was wrapped
C17_Witness ==
  /\ call.fn = "processQuery"
  /\ call.pc = "resolved"
  /\ call.outcome # Nothing
  /\ call.outcome.kind = "response"
  /\ call.outcome.status = 200
  /\ call.outcome.body
       = "{\"model\":\"served-model\",\"success\":false,\"task\":\"other\"}"
  /\ call.result.success
  /\ call.result.contextMessages >= 2

----------------------------------------------------------------------------
(* C18 *)

\* the tasks written by addCustomTask a keyword of which occurs in the
\* lowercased text
CustomTasksNamedBy(text) ==
  { taskTypes[i].id : i \in { j \in MatchingPlaces(text) :
      \A k \in 1..Len(TASK_TYPES) : taskTypes[j] # TASK_TYPES[k] } }

\* C18: once addCustomTask(T, config) has registered a task, a query holding
\* one of config's keywords is classified as T by determineTaskType, and by
\* classifyQuery without a classification call.
C18_CustomTaskWins ==
  CustomTaskCount = 1
    => /\ (op = "determineTaskType" /\ ~res.threw)
            => \A task \in CustomTasksNamedBy(arg.queryText.s) : res.v = task
       /\ (call.fn = "classifyQuery" /\ call.query.t = "string")
            => \A task \in CustomTasksNamedBy(call.query.s) :
                 /\ http = <<>>
                 /\ call.pc = "resolved"
                 /\ call.result.task = task

----------------------------------------------------------------------------
(* C19 *)

\* the registry's cost per 1000 tokens of modelId, the default model's for
\* an identifier the registry does not hold (units of 10^-5 USD)
UnitCost(modelId) ==
  IF modelId \in DOMAIN registry THEN registry[modelId].costPer1kTokens
  ELSE registry["llama3-8b-8192"].costPer1kTokens

\* C19: estimateCost is inputTokens/1000 * unitCost
\* + outputTokens/1000 * (2 * unitCost), unitCost being the registry's cost
\* of modelId, and the default model's for a modelId the registry does not
\* hold; estimateCost("llama3-8b-8192", 1000, 1000) is 0.00005 + 0.0001.
C19_CostFormula ==
  op = "estimateCost"
    => LET output == IF arg.outputTokens.t = "undefined" THEN 0
                     ELSE arg.outputTokens.n
       IN  /\ res = JNum(arg.inputTokens * UnitCost(arg.modelId)
                           + output * (2 * UnitCost(arg.modelId)))
           /\ (arg.modelId = "llama3-8b-8192" /\ arg.inputTokens = 1000
                 /\ output = 1000 /\ registry = MODEL_REGISTRY)
                => res = JNum(5000 + 10000)

----------------------------------------------------------------------------
(* C20 *)

\* kept is original cut to fewer characters, with the ellipsis appended
TruncatedCopy(kept, original) ==
  /\ kept.role = original.role
  /\ kept.content.t = "string"
  /\ original.content.t = "string"
  /\ EndsWith(kept.content.s, Ellipsis)
  /\ Len(kept.content.s) - Len(Ellipsis) < Len(original.content.s)
  /\ kept.content.s =
       Substring0(original.content.s, Len(kept.content.s) - Len(Ellipsis))
         \o Ellipsis

\* C20: what optimizeContext returns is, in the original order, a suffix of
\* the input: every message but the first returned one is the input's
\* message unchanged, and the first returned one is unchanged or a
\* truncated copy ending in an ellipsis.
C20_ChronologicalSuffix ==
  (op = "optimizeContext" /\ ~res.threw)
    => LET input == arg.contextMessages
           kept == res.v
           skipped == Len(input) - Len(kept)
       IN  /\ skipped >= 0
           /\ \A j \in 2..Len(kept) : kept[j] = input[skipped + j]
           /\ Len(kept) >= 1
                => \/ kept[1] = input[skipped + 1]
                   \/ TruncatedCopy(kept[1], input[skipped + 1])

\* a truncated message was returned in front of two different unchanged ones
C20_Witness ==
  /\ op = "optimizeContext"
  /\ ~res.threw
  /\ Len(res.v) = 3
  /\ Len(arg.contextMessages) = 3
  /\ res.v[1] # arg.contextMessages[1]
  /\ res.v[2] = arg.contextMessages[2]
  /\ res.v[3] = arg.contextMessages[3]
  /\ res.v[2] # res.v[3]

----------------------------------------------------------------------------
(* C21 *)

\* how many of the messages up to index i, counted from the last, fit
\* whole into left tokens
RECURSIVE FittingSuffix(_, _, _)
FittingSuffix(input, i, left) ==
  IF i = 0 \/ input[i].content.t # "string" THEN 0
  ELSE LET tokens == estimateTokenCount(input[i].content.s)
       IN  IF tokens <= left
           THEN 1 + FittingSuffix(input, i - 1, left - tokens)
           ELSE 0

\* the tokens of the last k messages
RECURSIVE SuffixTokens(_, _)
SuffixTokens(input, k) ==
  IF k = 0 THEN 0
  ELSE estimateTokenCount(input[Len(input)].content.s)
         + SuffixTokens(SubSeq(input, 1, Len(input) - 1), k - 1)

\* the messages of the call that fit whole
FittingOfCall ==
  FittingSuffix(arg.contextMessages, Len(arg.contextMessages),
                FloorSeventyPercent(arg.maxTokens))

\* the budget left, in tokens, when the next message did not fit
RemainingOfCall ==
  FloorSeventyPercent(arg.maxTokens)
    - SuffixTokens(arg.contextMessages, FittingOfCall)

\* optimizeContext returned, and a message of the input did not fit
MessageDidNotFit ==
  /\ op = "optimizeContext"
  /\ ~res.threw
  /\ FittingOfCall < Len(arg.contextMessages)

\* the result holds the fitting messages and, in front, a truncated copy
\* of the next older one
TruncatedKept ==
  /\ Len(res.v) = FittingOfCall + 1
  /\ TruncatedCopy(res.v[1],
                   arg.contextMessages[Len(arg.contextMessages) - FittingOfCall])

\* the result holds the fitting messages only
NextDropped == Len(res.v) = FittingOfCall

\* C21 (as amended): when the next older message does not fit, it is kept
\* truncated, with three dots appended, exactly when more than 100
\* characters (more than 25 tokens) of budget remain, and dropped otherwise;
\* either way nothing older is in the result.
C21_TruncationThreshold ==
  MessageDidNotFit
    => IF RemainingOfCall * 4 > 100
       THEN /\ TruncatedKept
            /\ Len(res.v[1].content.s) = RemainingOfCall * 4 + Len(Ellipsis)
       ELSE NextDropped

\* C21 (as stated): the next older message is kept truncated only if at
\* least 100 tokens of budget remain, and dropped with less.
C21_HundredTokens ==
  MessageDidNotFit
    => IF RemainingOfCall >= 100 THEN TruncatedKept ELSE NextDropped

\* a message was truncated into 26 tokens of remaining budget
C21_Witness ==
  /\ MessageDidNotFit
  /\ RemainingOfCall = 26
  /\ TruncatedKept
  /\ Len(res.v) = 2

----------------------------------------------------------------------------
(* C22 *)

\* the places of the input at which selected[j] stands
PlacesOf(messages, selected, j) ==
  { i \in 1..Len(messages) : messages[i] = selected[j] }

\* selected takes messages of the input, each at most once, in the order
\* of the input: the messages of the histories differ from one another, so
\* each selected message stands at one place of the input, and the places
\* must rise
InOrderOnce(messages, selected) ==
  /\ \A j \in 1..Len(selected) : PlacesOf(messages, selected, j) # {}
  /\ \A j \in 1..Len(selected), l \in 1..Len(selected) :
       j < l => \E a \in PlacesOf(messages, selected, j),
                   b \in PlacesOf(messages, selected, l) : a < b

\* C22: for every strategy, every history and every N >= 1,
\* selectContextMessages returns at most N messages, each input message at
\* most once, in the order they have in the input.
C22_AtMostNInOrder ==
  op = "selectContextMessages"
    => /\ Len(res) <= arg.n
       /\ InOrderOnce(arg.messages, res)

\* C22, the part that fails on its own at N >= 5: no input message twice
\* and the input's order, when no more than N messages are returned
C22_NoDuplicateWithinN ==
  (op = "selectContextMessages" /\ Len(res) <= arg.n)
    => InOrderOnce(arg.messages, res)

----------------------------------------------------------------------------
(* C23 *)

\* the keys of TASK_TYPES
RegisteredTasks == { taskTypes[i].id : i \in 1..Len(taskTypes) }

\* C23: the task of every classification classifyQuery returns is a key of
\* TASK_TYPES, whatever the classification endpoint answers.
C23_TaskIsRegistered ==
  (call.fn = "classifyQuery" /\ call.pc = "resolved")
    => call.result.task \in RegisteredTasks

----------------------------------------------------------------------------
(* C24 *)

\* orchestrator i keeps, over the step, its ModelManager with the strategy
\* it reports and the table it selects from, and the ModelManager linked
\* into its TaskClassifier and its ContextManager (the default ones, which
\* every orchestrator holds) stays the same
KeptOverStep(i) ==
  /\ orchs'[i].modelManager = orchs[i].modelManager
  /\ managers'[orchs'[i].modelManager] = managers[orchs[i].modelManager]
  /\ tcMM' = tcMM
  /\ cmMM' = cmMM

\* C24: a step that creates an orchestrator keeps every orchestrator there
\* was, and a step that configures one keeps every other orchestrator.
C24_OrchestratorsIsolated ==
  [][ /\ Len(orchs') > Len(orchs) => \A i \in 1..Len(orchs) : KeptOverStep(i)
      /\ Len(orchs') = Len(orchs)
           => \E o \in 1..Len(orchs) :
                \A i \in 1..Len(orchs) \ {o} : KeptOverStep(i) ]_vars

----------------------------------------------------------------------------
(* C25 *)

\* the Authorization header a request carries for a key
AuthorizationFor(apiKey) ==
  IF Truthy(apiKey) THEN JStr("Bearer " \o apiKey.s) ELSE JUndefined

\* C25: the request callLLM sends for a model of the registry goes to the
\* endpoint, and carries the API key, of the provider the model's registry
\* entry records.
C25_ProviderOfRegistryEntry ==
  (call.fn = "callLLM" /\ call.params.model.s \in DOMAIN registry)
    => \A i \in Requests("completion") :
         LET provider == registry[call.params.model.s].provider
             client == clients[call.client]
         IN  /\ http[i].request.url = getEndpoint(client, provider)
             /\ http[i].request.authorization
                  = AuthorizationFor(getApiKey(client, provider))

\* C25 on the models of MODEL_REGISTRY as written: there the provider rule
\* and the registry agree
C25_BuiltInModelsAgree ==
  (call.fn = "callLLM" /\ call.params.model.s \in DOMAIN MODEL_REGISTRY
     /\ registry[call.params.model.s] = MODEL_REGISTRY[call.params.model.s])
    => \A i \in Requests("completion") :
         LET provider == registry[call.params.model.s].provider
             client == clients[call.client]
         IN  /\ http[i].request.url = getEndpoint(client, provider)
             /\ http[i].request.authorization
                  = AuthorizationFor(getApiKey(client, provider))

====
